---- MODULE Spec2Model ----
(***************************************************************************)
(* Model of the data preprocessing package: the transform library          *)
(* (src/src/preprocessing.py) and its command line dispatcher              *)
(* (src/src/cli.py).                                                       *)
(*                                                                         *)
(* Python values are records of one shape, so that values of different     *)
(* Python types can be compared:                                           *)
(*   t     "int" | "float" | "bool" | "str" | "none" | "list"              *)
(*   m, e  the number m * 2^e (int, bool: e = 0; float: m odd or 0)        *)
(*   s     the characters of a str; <<"n","a","n">> marks a float NaN      *)
(*   id    object identity, which Python consults for NaN keys             *)
(*   items the elements of a list                                          *)
(*                                                                         *)
(* float64 arithmetic is modelled as binary floating point with            *)
(* round-to-nearest-even, with the significand shortened from 53 bits to   *)
(* Prec bits so that every intermediate fits TLC's integers; the           *)
(* exponent is unbounded (no overflow, no subnormals) and the sign of      *)
(* zero is not tracked (Python's == conflates 0.0 and -0.0).               *)
(***************************************************************************)
EXTENDS Integers, Sequences, FiniteSets, TLC

\* ------------------------------------------------------------------ bounds
\* Longest list drawn for the cleaning operations.
MaxLen == 3
\* Longest list drawn for the numeric operations.
MaxNumLen == 3
\* Longest array drawn for the VALUES argument of a command.
MaxJsonLen == 2
\* The longest text of the text operations.
\* The longest inner and outer list of flatten_list.
MaxInnerLen == 2
MaxOuterLen == 2
MaxTextLen == 4
\* The longest INPUT_TEXT of the remove-stopwords command, and the longest
\* stopwords list of a library call.
MaxCliTextLen == 3
MaxStopLen == 2
MaxShuffleLen == 3
MaxShuffleCalls == 3
\* Bits of significand of the modelled floating point format.
Prec == 3

\* ------------------------------------------------------- Python values
PyVal(t, m, e, s, id, items) ==
    [t |-> t, m |-> m, e |-> e, s |-> s, id |-> id, items |-> items]

PyNone == PyVal("none", 0, 0, <<>>, 0, <<>>)
PyInt(n) == PyVal("int", n, 0, <<>>, 0, <<>>)
PyBool(b) == PyVal("bool", IF b THEN 1 ELSE 0, 0, <<>>, 0, <<>>)
PyStr(chars) == PyVal("str", 0, 0, chars, 0, <<>>)
PyList(items) == PyVal("list", 0, 0, <<>>, 0, items)
NaNChars == <<"n", "a", "n">>
InfChars == <<"i", "n", "f">>
PyNaN(id) == PyVal("float", 0, 0, NaNChars, id, <<>>)
PyInf(sign) == PyVal("float", sign, 0, InfChars, 0, <<>>)

Abs(n) == IF n < 0 THEN -n ELSE n
Max2(a, b) == IF a >= b THEN a ELSE b
Min2(a, b) == IF a <= b THEN a ELSE b
Pow2(k) == 2 ^ k

\* The canonical significand/exponent pair of m * 2^e: m odd, or 0 * 2^0.
RECURSIVE Canon(_, _)
Canon(m, e) ==
    IF m = 0 THEN <<0, 0>>
    ELSE IF m % 2 = 0 THEN Canon(m \div 2, e + 1)
    ELSE <<m, e>>

\* The float of value m * 2^e (the caller guarantees it fits Prec bits).
PyFloat(m, e) ==
    LET c == Canon(m, e) IN PyVal("float", c[1], c[2], <<>>, 0, <<>>)

IsNaN(x) == x.t = "float" /\ x.s = NaNChars
IsInf(x) == x.t = "float" /\ x.s = InfChars
IsNumber(x) == x.t \in {"int", "float", "bool"}

\* --------------------------------------------- float64 arithmetic (rounded)
\* floor(a * 2^-x / d) for a >= 0, d > 0
Quot(a, d, x) == (a * Pow2(Max2(0, -x))) \div (d * Pow2(Max2(0, x)))

\* The exponent x that leaves a Prec-bit integer part: 2^(Prec-1) <= a/(d*2^x) < 2^Prec
RECURSIVE FindExp(_, _, _)
FindExp(a, d, x) ==
    IF Quot(a, d, x) >= Pow2(Prec) THEN FindExp(a, d, x + 1)
    ELSE IF Quot(a, d, x) < Pow2(Prec - 1) THEN FindExp(a, d, x - 1)
    ELSE x

\* Round to nearest, ties to even: quotient q with remainder r of den goes up
\* when the remainder is over half, or is half and q is odd.
RoundsUp(q, r, den) == (2 * r > den) \/ (2 * r = den /\ q % 2 = 1)

\* sign * (num / den) * 2^x, where num / den has a Prec-bit integer part
RoundQuotient(sign, num, den, x) ==
    PyFloat(sign * ((num \div den)
                    + (IF RoundsUp(num \div den, num % den, den) THEN 1 ELSE 0)), x)

RoundAtExp(n, d, x) ==
    RoundQuotient(IF n < 0 THEN -1 ELSE 1,
                  Abs(n) * Pow2(Max2(0, -x)), d * Pow2(Max2(0, x)), x)

\* The rational n/d (d > 0) rounded to the nearest float, ties to even.
RoundRat(n, d) ==
    IF n = 0 THEN PyFloat(0, 0)
    ELSE RoundAtExp(n, d, FindExp(Abs(n), d, 0))

\* The dyadic n * 2^x rounded to the nearest float.
RoundDyadic(n, x) ==
    IF x >= 0 THEN RoundRat(n * Pow2(x), 1) ELSE RoundRat(n, Pow2(-x))

FAdd(a, b) ==
    IF IsNaN(a) \/ IsNaN(b) THEN PyNaN(0)
    ELSE LET x == Min2(a.e, b.e)
         IN RoundDyadic(a.m * Pow2(a.e - x) + b.m * Pow2(b.e - x), x)

FNeg(a) == IF IsNaN(a) THEN a ELSE PyFloat(-a.m, a.e)

FSub(a, b) == FAdd(a, FNeg(b))

FMul(a, b) ==
    IF IsNaN(a) \/ IsNaN(b) THEN PyNaN(0)
    ELSE RoundDyadic(a.m * b.m, a.e + b.e)

\* x / 0 is nan for x = 0 and an infinity otherwise (numpy warns, no raise).
FDiv(a, b) ==
    IF IsNaN(a) \/ IsNaN(b) THEN PyNaN(0)
    ELSE IF b.m = 0 THEN (IF a.m = 0 THEN PyNaN(0)
                          ELSE PyInf(IF a.m < 0 THEN -1 ELSE 1))
    ELSE LET x == a.e - b.e
             sg == IF b.m < 0 THEN -1 ELSE 1
         IN RoundRat(sg * a.m * Pow2(Max2(0, x)), Abs(b.m) * Pow2(Max2(0, -x)))

\* a < b, a == b on floats (every comparison with nan is false)
FLess(a, b) ==
    /\ ~IsNaN(a) /\ ~IsNaN(b)
    /\ LET x == Min2(a.e, b.e)
       IN a.m * Pow2(a.e - x) < b.m * Pow2(b.e - x)

FEq(a, b) == ~IsNaN(a) /\ ~IsNaN(b) /\ a.m = b.m /\ a.e = b.e

\* m * 2^e rescaled to an even exponent and a significand of 2*Prec+2 bits or more
RECURSIVE SqrtScale(_, _)
SqrtScale(m, e) ==
    IF m < Pow2(2 * Prec + 2) \/ e % 2 # 0 THEN SqrtScale(2 * m, e - 1)
    ELSE <<m, e>>

\* floor(sqrt(n))
ISqrt(n) == CHOOSE q \in 0..n : q * q <= n /\ (q + 1) * (q + 1) > n

\* f * 2^k, exact
ScaleExp(f, k) == IF f.m = 0 THEN f ELSE PyFloat(f.m, f.e + k)

\* sqrt(n * 2^x) for even x, from q = floor(sqrt(n)): q plus a sticky half
\* when n is no square rounds as the root itself does.
SqrtFromFloor(n, x, q) ==
    ScaleExp(RoundRat(2 * q + (IF q * q = n THEN 0 ELSE 1), 2), x \div 2)

SqrtOfScaled(sc) == SqrtFromFloor(sc[1], sc[2], ISqrt(sc[1]))

\* The correctly rounded square root.
FSqrt(a) ==
    IF IsNaN(a) \/ a.m < 0 THEN PyNaN(0)
    ELSE IF a.m = 0 THEN a
    ELSE SqrtOfScaled(SqrtScale(a.m, a.e))

\* ------------------------------------------------------ Python semantics
\* The outcome of a call: a returned value or a raised exception.
Return(v) == [ok |-> TRUE, val |-> v, exc |-> "", msg |-> ""]
Raise(exc, msg) == [ok |-> FALSE, val |-> PyNone, exc |-> exc, msg |-> msg]

TypeName(x) == IF x.t = "none" THEN "NoneType" ELSE x.t

\* a is b. Identity is told apart only where it can matter: two nan objects
\* differ by id; equal non-nan values are equal whichever object holds them.
PyIs(a, b) == a = b

\* a == b: numbers compare by value across int, float and bool (nan equals
\* nothing), strings by their characters, lists element by element.
RECURSIVE PyEq(_, _)
PyEq(a, b) ==
    IF IsNumber(a) /\ IsNumber(b)
    THEN IF IsNaN(a) \/ IsNaN(b) THEN FALSE
         ELSE IF IsInf(a) \/ IsInf(b) THEN IsInf(a) /\ IsInf(b) /\ a.m = b.m
         ELSE Canon(a.m, a.e) = Canon(b.m, b.e)
    ELSE IF a.t = "str" /\ b.t = "str" THEN a.s = b.s
    ELSE IF a.t = "none" /\ b.t = "none" THEN TRUE
    ELSE IF a.t = "list" /\ b.t = "list"
    THEN /\ Len(a.items) = Len(b.items)
         /\ \A i \in 1..Len(a.items) :
                PyIs(a.items[i], b.items[i]) \/ PyEq(a.items[i], b.items[i])
    ELSE FALSE

\* isinstance(x, float) and math.isnan(x)
IsFloatNaN(x) == x.t = "float" /\ IsNaN(x)

\* for x in obj: a list yields its items, a str its characters, the other
\* scalars are not iterable (TypeError).
IsIterable(x) == x.t \in {"list", "str"}
Iterate(x) ==
    IF x.t = "list" THEN x.items
    ELSE [i \in 1..Len(x.s) |-> PyStr(<<x.s[i]>>)]
NotIterable(x) == Raise("TypeError", "'" \o TypeName(x) \o "' object is not iterable")

\* ------------------------------------------------------ cleaning operations
\* RemoveKeeps as filter(None, ...) would have it: keep the truthy elements.
RemoveKeepsTruthy(x) ==
    /\ ~PyIs(x, PyNone)
    /\ ~PyEq(x, PyStr(<<>>))
    /\ ~(IsNumber(x) /\ ~IsNaN(x) /\ x.m = 0)

\* RemoveKeeps without its nan test.
RemoveKeepsNoNaN(x) ==
    /\ ~PyIs(x, PyNone)
    /\ ~PyEq(x, PyStr(<<>>))

\* The lambda of remove_missing_values: TRUE for the elements filter keeps.
RemoveKeeps(x) ==
    /\ ~PyIs(x, PyNone)
    /\ ~PyEq(x, PyStr(<<>>))
    /\ ~IsFloatNaN(x)

\* The positions filter(pred, items) keeps, in order.
KeptIndices(items) ==
    SelectSeq([i \in 1..Len(items) |-> i], LAMBDA i : RemoveKeeps(items[i]))

\* list(filter(...)): the items at the kept positions
Filtered(items, idx) == PyList([k \in 1..Len(idx) |-> items[idx[k]]])

FilterKept(items) == Filtered(items, KeptIndices(items))

remove_missing_values(list_of_values) ==
    IF ~IsIterable(list_of_values) THEN NotIterable(list_of_values)
    ELSE Return(FilterKept(Iterate(list_of_values)))

\* FillReplaces as "not x" would have it: replace the falsy elements.
FillReplacesFalsy(x) ==
    \/ PyIs(x, PyNone)
    \/ PyEq(x, PyStr(<<>>))
    \/ (IsNumber(x) /\ ~IsNaN(x) /\ x.m = 0)

\* The condition of fill_missing_values: TRUE for the elements replaced.
FillReplaces(x) ==
    \/ PyIs(x, PyNone)
    \/ PyEq(x, PyStr(<<>>))
    \/ IsFloatNaN(x)

\* The list comprehension of fill_missing_values.
Filled(items, fill_value) ==
    PyList([i \in 1..Len(items) |->
               IF FillReplaces(items[i]) THEN fill_value ELSE items[i]])

fill_missing_values(list_of_values, fill_value) ==
    IF ~IsIterable(list_of_values) THEN NotIterable(list_of_values)
    ELSE Return(Filled(Iterate(list_of_values), fill_value))

\* The default of the fill_value parameter.
FillValueDefault == PyInt(0)

\* SameKey under an equality that also compares the types.
SameKeyTyped(a, b) == PyIs(a, b) \/ (a.t = b.t /\ PyEq(a, b))

\* Two objects are the same dict key when they are identical or equal.
SameKey(a, b) == PyIs(a, b) \/ PyEq(a, b)

\* dict.fromkeys: insert the items in order, a key already present stays.
\* The keys after inserting x.
Insert(keys, x) ==
    IF \E k \in 1..Len(keys) : SameKey(keys[k], x) THEN keys ELSE Append(keys, x)

RECURSIVE DictFromKeys(_, _)
DictFromKeys(items, keys) ==
    IF items = <<>> THEN keys
    ELSE DictFromKeys(Tail(items), Insert(keys, Head(items)))

\* list(dict.fromkeys(items)); a list is no key (unhashable)
KeysOf(items) ==
    IF \E i \in 1..Len(items) : items[i].t = "list"
    THEN Raise("TypeError", "unhashable type: 'list'")
    ELSE Return(PyList(DictFromKeys(items, <<>>)))

remove_duplicated_values(list_of_values) ==
    IF ~IsIterable(list_of_values) THEN NotIterable(list_of_values)
    ELSE KeysOf(Iterate(list_of_values))

\* ------------------------------------------------------- numeric operations
DigitChars == {"0", "1", "2", "3", "4", "5", "6", "7", "8", "9"}
DigitVal(c) ==
    CASE c = "0" -> 0 [] c = "1" -> 1 [] c = "2" -> 2 [] c = "3" -> 3
      [] c = "4" -> 4 [] c = "5" -> 5 [] c = "6" -> 6 [] c = "7" -> 7
      [] c = "8" -> 8 [] c = "9" -> 9

\* The integer written by the digits of chars, skipping the decimal point.
RECURSIVE DigitsValue(_, _)
DigitsValue(chars, acc) ==
    IF chars = <<>> THEN acc
    ELSE IF Head(chars) = "." THEN DigitsValue(Tail(chars), acc)
    ELSE DigitsValue(Tail(chars), 10 * acc + DigitVal(Head(chars)))

\* float(text) for texts of digits, sign and decimal point: the decimal
\* value rounded to the nearest float, or a ValueError.
\* The unsigned decimal body: digits around at most one point.
ParseDecimal(sign, body, dots) ==
    IF /\ \A i \in 1..Len(body) : body[i] \in DigitChars \cup {"."}
       /\ Cardinality(dots) <= 1
       /\ \E i \in 1..Len(body) : body[i] \in DigitChars
    THEN Return(RoundRat(sign * DigitsValue(body, 0),
                         10 ^ (IF dots = {} THEN 0
                               ELSE Len(body) - (CHOOSE i \in dots : TRUE))))
    ELSE Raise("ValueError", "could not convert string to float")

ParseSigned(sign, body) ==
    ParseDecimal(sign, body, {i \in 1..Len(body) : body[i] = "."})

ParseFloat(chars) ==
    IF chars # <<>> /\ Head(chars) \in {"-", "+"}
    THEN ParseSigned(IF Head(chars) = "-" THEN -1 ELSE 1, Tail(chars))
    ELSE ParseSigned(1, chars)

\* One element converted to float64 by np.array(..., dtype=float).
AsFloat(x) ==
    CASE x.t \in {"int", "bool"} -> Return(RoundRat(x.m, 1))
      [] x.t = "float" -> Return(IF IsNaN(x) THEN PyNaN(0) ELSE x)
      [] x.t = "none" -> Return(PyNaN(0))
      [] x.t = "str" -> ParseFloat(x.s)

\* np.array(values, dtype=float): a list of scalars gives a 1-d array, a
\* scalar a 0-d array (dim 0, one datum); an unparsable str raises.
ArrayOf(dim, conv) ==
    IF \E i \in 1..Len(conv) : ~conv[i].ok
    THEN conv[CHOOSE i \in 1..Len(conv) : ~conv[i].ok /\ \A j \in 1..(i - 1) : conv[j].ok]
    ELSE Return([dim |-> dim, data |-> [i \in 1..Len(conv) |-> conv[i].val]])

Converted(elems) == [i \in 1..Len(elems) |-> AsFloat(elems[i])]

NpArray(values) ==
    IF values.t = "list" THEN ArrayOf(1, Converted(values.items))
    ELSE ArrayOf(0, Converted(<<values>>))

\* np.minimum / np.maximum of two floats: nan wins.
FMin(a, b) ==
    IF IsNaN(a) THEN a ELSE IF IsNaN(b) THEN b ELSE IF FLess(b, a) THEN b ELSE a
FMax(a, b) ==
    IF IsNaN(a) THEN a ELSE IF IsNaN(b) THEN b ELSE IF FLess(a, b) THEN b ELSE a

\* np.min / np.max / np.sum of a non-empty array: a reduction from the left.
RECURSIVE NpMin(_)
NpMin(data) ==
    IF Len(data) = 1 THEN data[1]
    ELSE FMin(NpMin(SubSeq(data, 1, Len(data) - 1)), data[Len(data)])
RECURSIVE NpMax(_)
NpMax(data) ==
    IF Len(data) = 1 THEN data[1]
    ELSE FMax(NpMax(SubSeq(data, 1, Len(data) - 1)), data[Len(data)])
RECURSIVE NpSum(_)
NpSum(data) ==
    IF data = <<>> THEN PyFloat(0, 0)
    ELSE IF Len(data) = 1 THEN data[1]
    ELSE FAdd(NpSum(SubSeq(data, 1, Len(data) - 1)), data[Len(data)])

\* A Python number as the float64 it becomes in arithmetic with an array.
NumAsFloat(x) == IF x.t = "float" THEN x ELSE RoundRat(x.m, 1)

\* new_max - new_min in Python: exact on two ints, rounded otherwise.
PySub(a, b) ==
    IF a.t = "int" /\ b.t = "int" THEN PyInt(a.m - b.m)
    ELSE FSub(NumAsFloat(a), NumAsFloat(b))

\* Rescale with the degenerate case mapped to new_max.
RescaleTieToMax(arr, min_val, max_val, new_min, new_max) ==
    IF FEq(min_val, max_val)
    THEN IF arr.dim = 0
         THEN Raise("TypeError", "len() of unsized object")
         ELSE Return(PyList([i \in 1..Len(arr.data) |-> new_max]))
    ELSE IF arr.dim = 0
         THEN Raise("TypeError", "iteration over a 0-d array")
         ELSE Return(PyList([i \in 1..Len(arr.data) |->
                 FAdd(FMul(FDiv(FSub(arr.data[i], min_val), FSub(max_val, min_val)),
                           NumAsFloat(PySub(new_max, new_min))),
                      NumAsFloat(new_min))]))

\* Rescale dividing by max_val instead of max_val - min_val.
RescaleByMax(arr, min_val, max_val, new_min, new_max) ==
    IF FEq(min_val, max_val)
    THEN IF arr.dim = 0
         THEN Raise("TypeError", "len() of unsized object")
         ELSE Return(PyList([i \in 1..Len(arr.data) |-> new_min]))
    ELSE IF arr.dim = 0
         THEN Raise("TypeError", "iteration over a 0-d array")
         ELSE Return(PyList([i \in 1..Len(arr.data) |->
                 FAdd(FMul(FDiv(FSub(arr.data[i], min_val), max_val),
                           NumAsFloat(PySub(new_max, new_min))),
                      NumAsFloat(new_min))]))

\* Lines 103-105: the degenerate case, else the rescaling of every element.
Rescale(arr, min_val, max_val, new_min, new_max) ==
    IF FEq(min_val, max_val)
    THEN IF arr.dim = 0
         THEN Raise("TypeError", "len() of unsized object")
         ELSE Return(PyList([i \in 1..Len(arr.data) |-> new_min]))
    ELSE IF arr.dim = 0
         THEN Raise("TypeError", "iteration over a 0-d array")
         ELSE Return(PyList([i \in 1..Len(arr.data) |->
                 FAdd(FMul(FDiv(FSub(arr.data[i], min_val), FSub(max_val, min_val)),
                           NumAsFloat(PySub(new_max, new_min))),
                      NumAsFloat(new_min))]))

\* Line 102: np.min and np.max raise on an array without elements.
MinMaxRescale(arr, new_min, new_max) ==
    IF arr.data = <<>>
    THEN Raise("ValueError", "zero-size array to reduction operation minimum which has no identity")
    ELSE Rescale(arr, NpMin(arr.data), NpMax(arr.data), new_min, new_max)

\* Line 101: the conversion may raise.
NormalizeConverted(conv, new_min, new_max) ==
    IF ~conv.ok THEN conv ELSE MinMaxRescale(conv.val, new_min, new_max)

normalize_min_max(values, new_min, new_max) ==
    NormalizeConverted(NpArray(values), new_min, new_max)

\* np.mean: the sum divided by the count (0.0 / 0 is nan on an empty array)
NpMean(data) == FDiv(NpSum(data), RoundRat(Len(data), 1))

\* The root of the mean of the squares of the deviations x.
RootMeanSquare(x) ==
    FSqrt(FDiv(NpSum([i \in 1..Len(x) |-> FMul(x[i], x[i])]), RoundRat(Len(x), 1)))

Deviations(data, arrmean) == [i \in 1..Len(data) |-> FSub(data[i], arrmean)]

\* np.std: the root of the mean of the squared deviations from np.mean
NpStd(data) == RootMeanSquare(Deviations(data, NpMean(data)))

\* Lines 128-130: the degenerate case, else the z-score of every element.
ZScores(arr, mean, std) ==
    IF FEq(std, PyFloat(0, 0))
    THEN IF arr.dim = 0
         THEN Raise("TypeError", "len() of unsized object")
         ELSE Return(PyList([i \in 1..Len(arr.data) |-> PyFloat(0, 0)]))
    ELSE IF arr.dim = 0
         THEN Raise("TypeError", "iteration over a 0-d array")
         ELSE Return(PyList([i \in 1..Len(arr.data) |->
                                FDiv(FSub(arr.data[i], mean), std)]))

StandardizeConverted(conv) ==
    IF ~conv.ok THEN conv
    ELSE ZScores(conv.val, NpMean(conv.val.data), NpStd(conv.val.data))

standardize_zscore(values) == StandardizeConverted(NpArray(values))

\* np.clip(values, min_val, max_val) is np.minimum(np.maximum(a, min_val),
\* max_val) on a = np.asarray(values).  The array takes the type of its
\* elements: None or a list among them makes an array of objects, a str an
\* array of strings, and neither can be compared with a number.
ClipComparable(items) ==
    \A i \in 1..Len(items) : IsNumber(items[i])

\* The result is float64 as soon as an element or a bound is a float.
ClipIsFloat(items, min_val, max_val) ==
    \/ min_val.t = "float"
    \/ max_val.t = "float"
    \/ \E i \in 1..Len(items) : items[i].t = "float"

\* One number in the element type of the result.
ClipCast(x, isfloat) == IF isfloat THEN NumAsFloat(x) ELSE PyInt(x.m)

\* ClipElement with the upper bound applied first.
ClipElementUpperFirst(x, lo, hi) == FMax(FMin(x, hi), lo)

\* One element between the bounds: the lower bound first, the upper last.
ClipElement(x, lo, hi) == FMin(FMax(x, lo), hi)

Clipped(items, lo, hi, isfloat) ==
    Return(PyList([i \in 1..Len(items) |->
                     ClipElement(ClipCast(items[i], isfloat), lo, hi)]))

ClipItems(items, min_val, max_val, isfloat) ==
    Clipped(items, ClipCast(min_val, isfloat), ClipCast(max_val, isfloat), isfloat)

\* Line 155: a scalar gives a numpy scalar, which list() cannot iterate.
clip_values(values, min_val, max_val) ==
    IF values.t # "list"
    THEN (IF IsNumber(values)
          THEN Raise("TypeError", "object is not iterable")
          ELSE Raise("TypeError", "ufunc 'maximum' did not contain a loop with signature matching types"))
    ELSE IF ~ClipComparable(values.items)
    THEN Raise("TypeError", "ufunc 'maximum' did not contain a loop with signature matching types")
    ELSE ClipItems(values.items, min_val, max_val,
                   ClipIsFloat(values.items, min_val, max_val))

\* sys.float_info.max_exp: an int of 2**1024 or more has no float.
FloatMaxExp == 1024
\* The int 2**FloatMaxExp, held as m * 2^e like a float.
HugeInt == PyVal("int", 1, FloatMaxExp, <<>>, 0, <<>>)

\* float(v), line 179: a number converts (OverflowError past the range of
\* float), a str is parsed (ValueError), anything else is a TypeError.
PyFloatOf(v) ==
    CASE v.t = "int" ->
            IF v.e >= FloatMaxExp
            THEN Raise("OverflowError", "int too large to convert to float")
            ELSE Return(RoundDyadic(v.m, v.e))
      [] v.t = "bool" -> Return(RoundRat(v.m, 1))
      [] v.t = "float" -> Return(v)
      [] v.t = "str" -> IF v.s = NaNChars THEN Return(PyNaN(0)) ELSE ParseFloat(v.s)
      [] OTHER -> Raise("TypeError", "float() argument must be a string or a real number")

\* num.is_integer() and int(num), lines 180-181
IsInteger(num) == ~IsNaN(num) /\ ~IsInf(num) /\ (num.m = 0 \/ num.e >= 0)
PyIntOf(num) == PyInt(num.m * Pow2(num.e))

\* Lines 177-183: the loop over the items; ValueError and TypeError skip the
\* item, any other exception leaves the function.
RECURSIVE ConvertLoop(_, _)
RECURSIVE ConvertNext(_, _, _)
ConvertNext(items, result, num) ==
    IF num.ok
    THEN ConvertLoop(Tail(items),
                     IF IsInteger(num.val) THEN Append(result, PyIntOf(num.val))
                     ELSE result)
    ELSE IF num.exc \in {"ValueError", "TypeError"}
    THEN ConvertLoop(Tail(items), result)
    ELSE num
ConvertLoop(items, result) ==
    IF items = <<>> THEN Return(PyList(result))
    ELSE ConvertNext(items, result, PyFloatOf(Head(items)))

convert_to_integers(values) ==
    IF ~IsIterable(values) THEN NotIterable(values)
    ELSE ConvertLoop(Iterate(values), <<>>)

\* The natural logarithm of the odd numbers below 16 and of 2, in units of
\* 1 / LnScale.
LnScale == 65536
Ln2Scaled == 45426
LnOddScaled(m) ==
    CASE m = 1 -> 0 [] m = 3 -> 71999 [] m = 5 -> 105476 [] m = 7 -> 127527
      [] m = 9 -> 143997 [] m = 11 -> 157148 [] m = 13 -> 168097 [] m = 15 -> 177475

\* ln(m * 2^e) = ln(m) + e * ln(2), rounded to the nearest float.
LnOfCanon(c) == RoundRat(LnOddScaled(c[1]) + c[2] * Ln2Scaled, LnScale)

\* math.log(x): ValueError unless x is positive.
MathLog(x) ==
    IF IsNaN(x) THEN Return(PyNaN(0))
    ELSE IF x.m <= 0 THEN Raise("ValueError", "math domain error")
    ELSE IF IsInf(x) THEN Return(x)
    ELSE Return(LnOfCanon(Canon(x.m, x.e)))

\* LogKeeps with x >= 0 in the place of x > 0.
LogKeepsNonNegative(x) ==
    /\ x.t \in {"int", "float", "bool"}
    /\ ~IsNaN(x) /\ x.m >= 0

\* The condition of the comprehension: isinstance(x, (int, float)) and
\* x > 0; a bool is an int, and nan > 0 is False.
LogKeeps(x) ==
    /\ x.t \in {"int", "float", "bool"}
    /\ ~IsNaN(x) /\ x.m > 0

\* The comprehension: the first exception of math.log leaves the function.
LogsOf(logs) ==
    IF \E i \in 1..Len(logs) : ~logs[i].ok
    THEN logs[CHOOSE i \in 1..Len(logs) : ~logs[i].ok /\ \A j \in 1..(i - 1) : logs[j].ok]
    ELSE Return(PyList([i \in 1..Len(logs) |-> logs[i].val]))
LogsOfKept(kept) == LogsOf([i \in 1..Len(kept) |-> MathLog(kept[i])])

log_transform(values) ==
    IF ~IsIterable(values) THEN NotIterable(values)
    ELSE LogsOfKept(SelectSeq(Iterate(values), LogKeeps))

\* ----------------------------------------------------------- text operations
\* The letters of the model's texts, and str.lower() on them.
LowerChars == {"a", "b"}
UpperChars == {"A", "B"}
LowerChar(c) == CASE c = "A" -> "a" [] c = "B" -> "b" [] OTHER -> c
StrLower(chars) == [i \in 1..Len(chars) |-> LowerChar(chars[i])]

\* The class [a-zA-Z0-9], and \w, which has the underscore as well.
InAlnumClass(c) == c \in LowerChars \cup UpperChars \cup DigitChars
IsWordChar(c) == InAlnumClass(c) \/ c = "_"

\* \b before position i: a \w character on exactly one side.
WordAt(t, i) == i \in 1..Len(t) /\ IsWordChar(t[i])
AtBoundary(t, i) == WordAt(t, i - 1) # WordAt(t, i)

\* The ends j of a match of \b[a-zA-Z0-9]+\b that starts at i; the greedy
\* + takes the last of them, 0 stands for no match at i.
MatchEnds(t, i) ==
    {j \in i..Len(t) : (\A k \in i..j : InAlnumClass(t[k])) /\ AtBoundary(t, j + 1)}
MatchEnd(t, i) ==
    IF AtBoundary(t, i) /\ MatchEnds(t, i) # {}
    THEN CHOOSE j \in MatchEnds(t, i) : \A k \in MatchEnds(t, i) : k <= j
    ELSE 0

\* re.findall: the matches from left to right, the search resuming after
\* each match and one character on where there is none.
RECURSIVE FindAll(_, _)
RECURSIVE FindFrom(_, _, _)
FindFrom(t, i, j) ==
    IF j = 0 THEN FindAll(t, i + 1)
    ELSE <<PyStr(SubSeq(t, i, j))>> \o FindAll(t, j + 1)
FindAll(t, i) ==
    IF i > Len(t) THEN <<>> ELSE FindFrom(t, i, MatchEnd(t, i))

tokenize_text(text) ==
    IF text.t # "str"
    THEN Raise("AttributeError", "object has no attribute 'lower'")
    ELSE Return(PyList(FindAll(StrLower(text.s), 1)))

\* SubKeeps for the class [^\w ], which leaves the underscore in place.
SubKeepsWord(c) == IsWordChar(c) \/ c = " "

\* The characters [^A-Za-z0-9 ]+ does not match, those re.sub leaves.
SubKeeps(c) == InAlnumClass(c) \/ c = " "

\* Line 247: every run of the other characters is replaced by ''.
keep_alphanumeric_and_spaces(text) ==
    IF text.t # "str"
    THEN Raise("TypeError", "expected string or bytes-like object")
    ELSE Return(PyStr(SelectSeq(text.s, SubKeeps)))

\* str.split(): the maximal runs of characters that are no whitespace.
IsSpaceChar(c) == c \in {" ", "\t", "\n"}
WordEndFrom(t, i) ==
    CHOOSE j \in i..Len(t) :
        /\ \A k \in i..j : ~IsSpaceChar(t[k])
        /\ (j = Len(t) \/ IsSpaceChar(t[j + 1]))
RECURSIVE SplitFrom(_, _)
SplitFrom(t, i) ==
    IF i > Len(t) THEN <<>>
    ELSE IF IsSpaceChar(t[i]) THEN SplitFrom(t, i + 1)
    ELSE <<SubSeq(t, i, WordEndFrom(t, i))>> \o SplitFrom(t, WordEndFrom(t, i) + 1)

\* ' '.join(words)
RECURSIVE JoinSpace(_)
JoinSpace(words) ==
    IF words = <<>> THEN <<>>
    ELSE IF Len(words) = 1 THEN words[1]
    ELSE words[1] \o <<" ">> \o JoinSpace(Tail(words))

IsSubstring(w, chars) ==
    \E i \in 0..(Len(chars) - Len(w)) : SubSeq(chars, i + 1, i + Len(w)) = w

\* InStopwords with the entries lower-cased as well.
InStopwordsAnyCase(w, stopwords) ==
    IF stopwords.t = "list"
    THEN \E i \in 1..Len(stopwords.items) :
            /\ stopwords.items[i].t = "str"
            /\ StrLower(stopwords.items[i].s) = w
    ELSE IsSubstring(w, stopwords.s)

\* w in stopwords: an element of a list that is w or equals it, a
\* substring of a str.
InStopwords(w, stopwords) ==
    IF stopwords.t = "list"
    THEN \E i \in 1..Len(stopwords.items) :
            \/ PyIs(stopwords.items[i], PyStr(w))
            \/ PyEq(stopwords.items[i], PyStr(w))
    ELSE IsSubstring(w, stopwords.s)

KeptWords(words, stopwords) ==
    SelectSeq(words, LAMBDA w : ~InStopwords(w, stopwords))

\* Line 271: the test of the first word raises when stopwords is no
\* container.
FilterWords(words, stopwords) ==
    IF words # <<>> /\ stopwords.t \notin {"list", "str"}
    THEN Raise("TypeError", "argument of type '" \o TypeName(stopwords) \o "' is not iterable")
    ELSE Return(PyStr(JoinSpace(KeptWords(words, stopwords))))

remove_stopwords(text, stopwords) ==
    IF text.t # "str"
    THEN Raise("AttributeError", "object has no attribute 'lower'")
    ELSE FilterWords(SplitFrom(StrLower(text.s), 1), stopwords)

\* ------------------------------------------------------ structure operations
\* FlattenFrom with each sublist put before the items gathered so far.
RECURSIVE FlattenFromBackwards(_, _)
FlattenFromBackwards(sublists, result) ==
    IF sublists = <<>> THEN Return(PyList(result))
    ELSE IF ~IsIterable(Head(sublists)) THEN NotIterable(Head(sublists))
    ELSE FlattenFromBackwards(Tail(sublists), Iterate(Head(sublists)) \o result)

\* Line 292: the outer loop takes the sublists in order, the inner loop the
\* items of each; a sublist that cannot be iterated raises TypeError.
RECURSIVE FlattenFrom(_, _)
FlattenFrom(sublists, result) ==
    IF sublists = <<>> THEN Return(PyList(result))
    ELSE IF ~IsIterable(Head(sublists)) THEN NotIterable(Head(sublists))
    ELSE FlattenFrom(Tail(sublists), result \o Iterate(Head(sublists)))

flatten_list(list_of_lists) ==
    IF ~IsIterable(list_of_lists) THEN NotIterable(list_of_lists)
    ELSE FlattenFrom(Iterate(list_of_lists), <<>>)

\* random.Random: the generator is the Mersenne Twister; the model puts a
\* linear congruential generator in its place, which like it is a state
\* set from the seed alone and stepped by every draw.
RngModulus == 65537
RngMult == 75
RngIncr == 74
RngStep(state) == (state * RngMult + RngIncr) % RngModulus
\* Random(seed) with an int seed, whose sign is dropped.
RngSeed(seed) == RngStep(Abs(seed.m) % RngModulus)
RECURSIVE RngState(_, _)
RngState(state, k) == IF k = 0 THEN state ELSE RngStep(RngState(state, k - 1))

\* The draws of rng.shuffle on n items: the k-th is randbelow(i + 1) for
\* i = n - k, from the state after k steps.
SeededDraws(state, n) == [k \in 1..(n - 1) |-> RngState(state, k) % (n - k + 1)]

\* The states the shared generator of the module random may be in when the
\* process starts (it is seeded from the entropy of the system).
GlobalStates == {RngSeed(PyInt(1)), RngSeed(PyInt(2))}

\* The draws a generator seeded from the entropy of the system may make.
DrawSeqs(n) == {d \in [1..(n - 1) -> 0..(n - 1)] : \A k \in 1..(n - 1) : d[k] <= n - k}

\* The generator if the function used the shared generator of the module,
\* as random.shuffle does.
SharedGenerator(seed, entropy, n, shared) ==
    [draws |-> SeededDraws(shared, n), shared |-> RngState(shared, n)]

\* Line 315: rng = random.Random(seed), a generator of its own for the
\* call; seed None takes the entropy of the system.  The shared generator
\* is left as it is.
LocalGenerator(seed, entropy, n, shared) ==
    [draws |-> IF seed.t = "none" THEN entropy ELSE SeededDraws(RngSeed(seed), n),
     shared |-> shared]

\* Line 317: for i in reversed(range(1, len(x))): j = randbelow(i + 1);
\* x[i], x[j] = x[j], x[i]
Swap(x, a, b) == [x EXCEPT ![a] = x[b], ![b] = x[a]]
RECURSIVE ShuffleFrom(_, _, _)
ShuffleFrom(x, i, draws) ==
    IF i < 1 THEN x
    ELSE ShuffleFrom(Swap(x, i + 1, draws[Len(x) - i] + 1), i - 1, draws)

\* Shuffled with "shuffled = values": the list of the caller is the one
\* shuffled and returned.
ShuffledInPlace(values, draws) ==
    [ret |-> Return(PyList(ShuffleFrom(values.items, Len(values.items) - 1, draws))),
     original |-> [obj |-> PyList(ShuffleFrom(values.items, Len(values.items) - 1, draws)),
                   returned |-> TRUE]]

\* Lines 316-318: shuffled = values[:] is a new list, which is shuffled and
\* returned; values is not touched.
Shuffled(values, draws) ==
    [ret |-> Return(PyList(ShuffleFrom(values.items, Len(values.items) - 1, draws))),
     original |-> [obj |-> values, returned |-> FALSE]]

\* A str has a slice but no item assignment (none is made on one of fewer
\* than two characters); the other scalars have no slice.
ShuffleScalar(values) ==
    [ret |-> IF values.t = "str"
             THEN (IF Len(values.s) <= 1 THEN Return(values)
                   ELSE Raise("TypeError", "'str' object does not support item assignment"))
             ELSE Raise("TypeError", "'" \o TypeName(values) \o "' object is not subscriptable"),
     original |-> [obj |-> values, returned |-> FALSE]]

ShuffleWith(values, rng) ==
    [ret |-> (IF values.t = "list" THEN Shuffled(values, rng.draws)
              ELSE ShuffleScalar(values)).ret,
     original |-> (IF values.t = "list" THEN Shuffled(values, rng.draws)
                   ELSE ShuffleScalar(values)).original,
     shared |-> rng.shared]

\* shuffle_list(values, seed) in a process whose shared generator is in the
\* state shared, on a system whose entropy leads to the draws entropy.
shuffle_list(values, seed, entropy, shared) ==
    ShuffleWith(values,
                LocalGenerator(seed, entropy,
                               IF values.t = "list" THEN Len(values.items) ELSE 0, shared))

\* ------------------------------------------------------------ JSON decoding
\* The VALUES argument is a text; the model carries the JSON document it
\* spells: j is "malformed" (no JSON at all), "null", "true", "false",
\* "NaN", "number" (s: the literal's characters), "string" (s: its
\* characters) or "array" (items).
JDoc(j, s, items) == [j |-> j, s |-> s, items |-> items]

\* The one float object json.decoder hands out for every NaN literal.
JsonNaN == PyNaN(0)

\* json.loads on a well-formed document: the Python value it builds.
RECURSIVE JsonValue(_)
JsonValue(doc) ==
    CASE doc.j = "null" -> PyNone
      [] doc.j = "true" -> PyBool(TRUE)
      [] doc.j = "false" -> PyBool(FALSE)
      [] doc.j = "NaN" -> JsonNaN
      [] doc.j = "string" -> PyStr(doc.s)
      [] doc.j = "number" ->
            IF \E i \in 1..Len(doc.s) : doc.s[i] = "."
            THEN ParseFloat(doc.s).val
            ELSE PyInt((IF Head(doc.s) = "-" THEN -1 ELSE 1)
                       * DigitsValue(IF Head(doc.s) = "-" THEN Tail(doc.s) ELSE doc.s, 0))
      [] doc.j = "array" ->
            PyList([i \in 1..Len(doc.items) |-> JsonValue(doc.items[i])])

JsonLoads(doc) ==
    IF doc.j = "malformed"
    THEN Raise("JSONDecodeError", "Expecting value")
    ELSE Return(JsonValue(doc))

\* ---------------------------------------------------------------- rendering
RECURSIVE JoinChars(_)
JoinChars(chars) ==
    IF chars = <<>> THEN "" ELSE Head(chars) \o JoinChars(Tail(chars))

\* The k decimal digits of n, zero padded on the left.
RECURSIVE Digits(_, _)
Digits(n, k) ==
    IF k = 0 THEN "" ELSE Digits(n \div 10, k - 1) \o ToString(n % 10)

\* repr of a finite float: its decimal expansion, with ".0" on an integer.
FloatRepr(x) ==
    LET sign == IF x.m < 0 THEN "-" ELSE ""
        a == Abs(x.m)
    IN IF x.e >= 0 THEN sign \o ToString(a * Pow2(x.e)) \o ".0"
       ELSE LET k == -x.e
                scaled == a * (5 ^ k)
            IN sign \o ToString(scaled \div (10 ^ k)) \o "." \o Digits(scaled % (10 ^ k), k)

\* repr(x), which str(list) applies to every element.
RECURSIVE PyRepr(_)
RECURSIVE ReprItems(_)
ReprItems(items) ==
    IF items = <<>> THEN ""
    ELSE IF Len(items) = 1 THEN PyRepr(items[1])
    ELSE PyRepr(Head(items)) \o ", " \o ReprItems(Tail(items))
PyRepr(x) ==
    CASE x.t = "none" -> "None"
      [] x.t = "bool" -> IF x.m = 1 THEN "True" ELSE "False"
      [] x.t = "int" -> ToString(x.m)
      [] x.t = "float" ->
            IF IsNaN(x) THEN "nan"
            ELSE IF IsInf(x) THEN (IF x.m < 0 THEN "-inf" ELSE "inf")
            ELSE FloatRepr(x)
      [] x.t = "str" -> "'" \o JoinChars(x.s) \o "'"
      [] x.t = "list" -> "[" \o ReprItems(x.items) \o "]"

\* A line written by click.echo: the fixed label and the text after it.
Line(label, text) == [label |-> label, text |-> text]
ResultLabel == "Result: "
ErrorLabel == "Error: "
ValuesErrorText == "VALUES must be a valid JSON array"
StopwordsErrorText == "STOPWORDS must be a valid JSON array"

\* str(x), which the f-string applies to the result
StrOf(x) == IF x.t = "str" THEN JoinChars(x.s) ELSE PyRepr(x)

\* ------------------------------------------------------------------- state
VARIABLES
    op,         \* the library function or CLI command that ran last
    argv,       \* CLI: the VALUES document and the options on the command line
    given,      \* library: the optional parameters the caller passed
    called,     \* the library functions entered, in order
    params,     \* the actual parameters of the library function
    ret,        \* what the library function (or the decoding) came to
    stdout,     \* lines on standard output
    stderr,     \* lines on the error stream
    exit_code,  \* <<>> while no process has exited, <<status>> after
    piped,      \* the earlier calls whose result was passed on to this one
    global_rng, \* the state of the generator the module random shares
    history,    \* the seeded calls of shuffle_list this process made before
    original    \* the list object the caller passed to shuffle_list, as it
                \* is now, and whether the call returned that very object

vars == <<op, argv, given, called, params, ret, stdout, stderr, exit_code, piped,
          global_rng, history, original>>

NoOriginal == [obj |-> PyNone, returned |-> FALSE]

NoDoc == JDoc("none", <<>>, <<>>)
NoArgv == [values |-> NoDoc, options |-> <<>>]
NoParams == [values |-> PyNone, fill_value |-> PyNone,
             new_min |-> PyNone, new_max |-> PyNone,
             min_val |-> PyNone, max_val |-> PyNone,
             text |-> PyNone, stopwords |-> PyNone, seed |-> PyNone]

\* ------------------------------------------------------------------ inputs
Lists(S, n) == UNION {[1..k -> S] : k \in 0..n}

\* Scalars of the cleaning operations: the three missing markers (two nan
\* objects), the falsy values, and 1 as int, float and str.
CleanScalars ==
    {PyNone, PyStr(<<>>), PyNaN(1), PyNaN(2),
     PyInt(0), PyFloat(0, 0), PyBool(FALSE),
     PyInt(1), PyFloat(1, 0), PyStr(<<"1">>)}
CleanLists == {PyList(l) : l \in Lists(CleanScalars, MaxLen)}
FillValues == {PyInt(0), PyInt(1), PyNone, PyNaN(1), PyStr(<<>>), PyStr(<<"1">>)}

\* Numbers of the numeric operations, and the lists the unit tests use.
NumScalars == {PyInt(1), PyInt(3), PyInt(7), PyFloat(-1, 0), PyFloat(1, -1), PyNaN(1)}
TestLists ==
    {<<PyInt(1), PyInt(2), PyInt(3), PyInt(4), PyInt(5)>>,
     <<PyInt(5), PyInt(4), PyInt(3), PyInt(2), PyInt(1)>>,
     <<PyInt(5)>>}
NumLists == {PyList(l) : l \in Lists(NumScalars, MaxNumLen) \cup TestLists}
NewBounds == {PyFloat(0, 0), PyFloat(1, 0), PyFloat(-1, 0), PyFloat(1, -2), PyFloat(5, -1)}

\* Numbers and bounds of clip_values, with the list of the documented example.
ClipScalars ==
    {PyInt(1), PyInt(5), PyInt(10), PyFloat(3, -2), PyFloat(-1, 0), PyNaN(1)}
ClipLists ==
    {PyList(l) : l \in Lists(ClipScalars, MaxNumLen)
                    \cup {<<PyInt(1), PyInt(5), PyInt(10), PyInt(15)>>}}
ClipBounds == {PyInt(2), PyInt(8), PyInt(0), PyFloat(1, 0), PyFloat(5, -1)}

\* Items of convert_to_integers: the texts of the documented example, the
\* items of the unit test, and an int beyond the range of float.
IntegerItems ==
    {PyStr(<<"1">>), PyStr(<<"2", ".", "5">>), PyStr(<<"a">>), PyStr(<<"3">>),
     PyStr(<<"-", "1", ".", "0">>), PyStr(<<>>), PyNone, PyNaN(1),
     PyInt(1), PyFloat(5, -1), PyBool(TRUE), HugeInt}
IntegerLists ==
    {PyList(l) : l \in Lists(IntegerItems, MaxLen)
                    \cup {<<PyStr(<<"1">>), PyStr(<<"2", ".", "5">>),
                            PyStr(<<"a">>), PyStr(<<"3">>)>>}}

\* Elements of log_transform: the numbers of the documented example, numbers
\* on both sides of 1, and what is no number.
LogScalars ==
    {PyInt(1), PyInt(10), PyInt(0), PyInt(-5), PyFloat(5, -1), PyFloat(1, -1),
     PyFloat(-1, 0), PyNaN(1), PyNone, PyStr(<<"a">>), PyBool(TRUE)}
LogLists ==
    {PyList(l) : l \in Lists(LogScalars, MaxLen)
                    \cup {<<PyInt(1), PyInt(10), PyInt(0), PyInt(-5)>>}}

\* Texts: letters in both cases, a digit, the underscore, a space, a tab and
\* a comma.
TextChars == {"a", "B", "1", "_", " ", "\t", ","}
Texts == {PyStr(t) : t \in Lists(TextChars, MaxTextLen)}

\* Texts of words: a letter in both cases, a space and a tab; stopwords that
\* are texts in both cases, a number, None and nan.
WordChars == {"a", "B", " ", "\t"}
WordTexts == {PyStr(t) : t \in Lists(WordChars, MaxTextLen)}
CliWordTexts == {PyStr(t) : t \in Lists({"a", "B", " "}, MaxCliTextLen)}
StopwordEntries ==
    {PyStr(<<"a">>), PyStr(<<"b">>), PyStr(<<"B">>), PyInt(1), PyNone, PyNaN(1)}
StopwordLists == {PyList(l) : l \in Lists(StopwordEntries, MaxStopLen)}

\* Lists of flatten_list: inner lists of scalars and of a list, and scalars
\* where an inner list is expected; the list of the documented example.
InnerItems == {PyInt(1), PyStr(<<"3">>), PyList(<<PyInt(2)>>)}
OuterItems ==
    {PyList(l) : l \in Lists(InnerItems, MaxInnerLen)} \cup {PyInt(1), PyInt(2)}
NestedLists ==
    {PyList(l) : l \in Lists(OuterItems, MaxOuterLen)
                    \cup {<<PyList(<<PyInt(1), PyInt(2)>>),
                            PyList(<<PyInt(3), PyInt(4)>>), PyList(<<PyInt(5)>>)>>}}

\* Lists of shuffle_list: shuffling looks at no item, so one list of each
\* collection of items is enough, the one in the order of ShuffleItems;
\* and values that are no list.
ShuffleItems == <<PyInt(1), PyInt(2), PyStr(<<"a">>)>>
Ascending(n) ==
    {f \in [1..n -> 1..Len(ShuffleItems)] : \A k \in 1..(n - 1) : f[k] <= f[k + 1]}
ShuffleLists ==
    {PyList([k \in 1..Len(f) |-> ShuffleItems[f[k]]]) :
        f \in UNION {Ascending(n) : n \in 0..MaxShuffleLen}}
ShuffleValues == ShuffleLists \cup {PyNone, PyInt(1), PyStr(<<"a">>), PyStr(<<"a", "b">>)}
\* Another list the caller may shuffle between two calls on one list.
OtherList == PyList(<<PyInt(2), PyInt(1)>>)
\* The seeds of the test of reproducibility.
Seeds == {PyInt(42), PyInt(123)}
\* The draws of the generator of one call that come from the system.
Entropy(values, seed) ==
    IF seed.t = "none" /\ values.t = "list" THEN DrawSeqs(Len(values.items)) ELSE {<<>>}

\* Documents of the VALUES argument.
JNum(chars) == JDoc("number", chars, <<>>)
JStr(chars) == JDoc("string", chars, <<>>)
JScalars ==
    {JDoc("null", <<>>, <<>>), JDoc("NaN", <<>>, <<>>), JDoc("false", <<>>, <<>>),
     JStr(<<>>), JStr(<<"a">>), JNum(<<"1">>), JNum(<<"2", ".", "5">>)}
JsonArgs ==
    {JDoc("malformed", <<>>, <<>>)} \cup JScalars
    \cup {JDoc("array", <<>>, l) : l \in Lists(JScalars, MaxJsonLen)}

\* Documents of the VALUES argument of flatten: arrays of arrays as well.
NestedJsonArgs ==
    {JDoc("malformed", <<>>, <<>>), JNum(<<"1">>)}
    \cup {JDoc("array", <<>>, l) :
            l \in Lists({JDoc("array", <<>>, i) :
                            i \in Lists({JNum(<<"1">>), JNum(<<"2">>)}, MaxJsonLen)}
                        \cup {JNum(<<"1">>), JStr(<<"a">>)}, MaxJsonLen)}

\* The --stopwords option: omitted, the empty text, or a document.
EmptyDoc == JDoc("empty", <<>>, <<>>)
StopwordOptions ==
    {NoDoc, EmptyDoc, JDoc("malformed", <<>>, <<>>),
     JDoc("null", <<>>, <<>>), JStr(<<"a">>), JNum(<<"1">>)}
    \cup {JDoc("array", <<>>, l) :
            l \in Lists({JStr(<<"a">>), JStr(<<"b">>), JStr(<<"B">>), JNum(<<"1">>),
                         JDoc("null", <<>>, <<>>)}, MaxJsonLen)}

\* Texts of a float option and of an int option; <<>> is an omitted option.
FloatOptions == {<<>>, <<"0">>, <<"-", "1">>, <<"2", ".", "5">>}
IntOptions == {<<>>, <<"0">>, <<"-", "1">>}

\* ------------------------------------------------------------- operations
Init ==
    /\ op = "none"
    /\ argv = NoArgv
    /\ given = {}
    /\ called = <<>>
    /\ params = NoParams
    /\ ret = Return(PyNone)
    /\ stdout = <<>>
    /\ stderr = <<>>
    /\ exit_code = <<>>
    /\ piped = <<>>
    /\ global_rng \in GlobalStates
    /\ history = <<>>
    /\ original = NoOriginal

\* Every command line starts a new process, every test case a new call:
\* nothing of the previous one is left.
Start ==
    /\ op # "none"
    /\ op' = "none"
    /\ argv' = NoArgv
    /\ given' = {}
    /\ called' = <<>>
    /\ params' = NoParams
    /\ ret' = Return(PyNone)
    /\ stdout' = <<>>
    /\ stderr' = <<>>
    /\ exit_code' = <<>>
    /\ piped' = <<>>
    /\ global_rng' \in GlobalStates
    /\ history' = <<>>
    /\ original' = NoOriginal

\* A direct call of a library function, as the unit tests make it.
LibraryCall(fn, g, p, result) ==
    /\ op' = fn
    /\ argv' = NoArgv
    /\ given' = g
    /\ called' = <<fn>>
    /\ params' = p
    /\ ret' = result
    /\ UNCHANGED <<stdout, stderr, exit_code, piped, global_rng, history, original>>

Call_remove_missing_values ==
    /\ op = "none"
    /\ \E values \in CleanLists :
        LibraryCall("remove_missing_values", {},
                    [NoParams EXCEPT !.values = values],
                    remove_missing_values(values))

Call_fill_missing_values ==
    /\ op = "none"
    /\ \E values \in CleanLists, g \in SUBSET {"fill_value"}, v \in FillValues :
        LET fill_value == IF "fill_value" \in g THEN v ELSE FillValueDefault
        IN /\ "fill_value" \notin g => v = FillValueDefault
           /\ LibraryCall("fill_missing_values", g,
                          [NoParams EXCEPT !.values = values, !.fill_value = fill_value],
                          fill_missing_values(values, fill_value))

\* remove_missing_values applied to what fill_missing_values just returned.
Call_remove_missing_values_of_filled ==
    /\ op = "fill_missing_values"
    /\ ret.ok
    /\ piped = <<>>
    /\ op' = "remove_missing_values"
    /\ called' = Append(called, "remove_missing_values")
    /\ piped' = Append(piped, [fn |-> op, params |-> params, ret |-> ret])
    /\ params' = [NoParams EXCEPT !.values = ret.val]
    /\ ret' = remove_missing_values(ret.val)
    /\ given' = {}
    /\ UNCHANGED <<argv, stdout, stderr, exit_code, global_rng, history, original>>

Call_remove_duplicated_values ==
    /\ op = "none"
    /\ \E values \in CleanLists :
        LibraryCall("remove_duplicated_values", {},
                    [NoParams EXCEPT !.values = values],
                    remove_duplicated_values(values))

\* The defaults of new_min and new_max.
NewMinDefault == PyFloat(0, 0)
NewMaxDefault == PyFloat(1, 0)

Call_normalize_min_max ==
    /\ op = "none"
    /\ \E values \in NumLists, g \in {{}, {"new_min", "new_max"}},
       lo \in NewBounds, hi \in NewBounds :
        LET new_min == IF "new_min" \in g THEN lo ELSE NewMinDefault
            new_max == IF "new_max" \in g THEN hi ELSE NewMaxDefault
        IN /\ g = {} => (lo = NewMinDefault /\ hi = NewMaxDefault)
           /\ LibraryCall("normalize_min_max", g,
                          [NoParams EXCEPT !.values = values,
                                           !.new_min = new_min, !.new_max = new_max],
                          normalize_min_max(values, new_min, new_max))

Call_standardize_zscore ==
    /\ op = "none"
    /\ \E values \in NumLists :
        LibraryCall("standardize_zscore", {},
                    [NoParams EXCEPT !.values = values],
                    standardize_zscore(values))

Call_clip_values ==
    /\ op = "none"
    /\ \E values \in ClipLists, min_val \in ClipBounds, max_val \in ClipBounds :
        LibraryCall("clip_values", {},
                    [NoParams EXCEPT !.values = values,
                                     !.min_val = min_val, !.max_val = max_val],
                    clip_values(values, min_val, max_val))

Call_convert_to_integers ==
    /\ op = "none"
    /\ \E values \in IntegerLists :
        LibraryCall("convert_to_integers", {},
                    [NoParams EXCEPT !.values = values],
                    convert_to_integers(values))

Call_log_transform ==
    /\ op = "none"
    /\ \E values \in LogLists :
        LibraryCall("log_transform", {},
                    [NoParams EXCEPT !.values = values],
                    log_transform(values))

Call_tokenize_text ==
    /\ op = "none"
    /\ \E text \in Texts :
        LibraryCall("tokenize_text", {},
                    [NoParams EXCEPT !.text = text],
                    tokenize_text(text))

Call_keep_alphanumeric_and_spaces ==
    /\ op = "none"
    /\ \E text \in Texts :
        LibraryCall("keep_alphanumeric_and_spaces", {},
                    [NoParams EXCEPT !.text = text],
                    keep_alphanumeric_and_spaces(text))

\* keep_alphanumeric_and_spaces applied to what it just returned.
Call_keep_alphanumeric_and_spaces_again ==
    /\ op = "keep_alphanumeric_and_spaces"
    /\ ret.ok
    /\ piped = <<>>
    /\ op' = "keep_alphanumeric_and_spaces"
    /\ called' = Append(called, "keep_alphanumeric_and_spaces")
    /\ piped' = Append(piped, [fn |-> op, params |-> params, ret |-> ret])
    /\ params' = [NoParams EXCEPT !.text = ret.val]
    /\ ret' = keep_alphanumeric_and_spaces(ret.val)
    /\ given' = {}
    /\ UNCHANGED <<argv, stdout, stderr, exit_code, global_rng, history, original>>

Call_remove_stopwords ==
    /\ op = "none"
    /\ \E text \in WordTexts, stopwords \in StopwordLists :
        LibraryCall("remove_stopwords", {},
                    [NoParams EXCEPT !.text = text, !.stopwords = stopwords],
                    remove_stopwords(text, stopwords))

\* A call of shuffle_list; a seeded call the process made before goes to
\* history when the next one is made.
ShuffleCall(g, values, seed, out) ==
    /\ op' = "shuffle_list"
    /\ argv' = NoArgv
    /\ given' = g
    /\ called' = Append(called, "shuffle_list")
    /\ params' = [NoParams EXCEPT !.values = values, !.seed = seed]
    /\ ret' = out.ret
    /\ original' = out.original
    /\ global_rng' = out.shared
    /\ history' = IF op = "shuffle_list" /\ params.seed.t # "none"
                   THEN Append(history, [values |-> params.values,
                                         seed |-> params.seed, ret |-> ret])
                   ELSE history
    /\ UNCHANGED <<stdout, stderr, exit_code, piped>>

Call_shuffle_list ==
    /\ op = "none"
    /\ \E values \in ShuffleValues, seed \in Seeds \cup {PyNone} :
        \E entropy \in Entropy(values, seed) :
            ShuffleCall(IF seed.t = "none" THEN {} ELSE {"seed"}, values, seed,
                        shuffle_list(values, seed, entropy, global_rng))

\* One more call in the same process, on the list object of the call before
\* (as the test of reproducibility does) or on another list.
Call_shuffle_list_again ==
    /\ op = "shuffle_list"
    /\ Len(called) < MaxShuffleCalls
    /\ \E values \in {original.obj, OtherList}, seed \in Seeds \cup {PyNone} :
        \E entropy \in Entropy(values, seed) :
            ShuffleCall(IF seed.t = "none" THEN {} ELSE {"seed"}, values, seed,
                        shuffle_list(values, seed, entropy, global_rng))

Call_flatten_list ==
    /\ op = "none"
    /\ \E list_of_lists \in NestedLists :
        LibraryCall("flatten_list", {},
                    [NoParams EXCEPT !.values = list_of_lists],
                    flatten_list(list_of_lists))

\* Command without its "except Exception" clause.
CommandNoExcept(cmd, args, fn, decoded, p, result) ==
    /\ op' = cmd
    /\ argv' = args
    /\ given' = {}
    /\ called' = IF decoded.ok THEN <<fn>> ELSE <<>>
    /\ params' = IF decoded.ok THEN p ELSE NoParams
    /\ ret' = IF decoded.ok THEN result ELSE decoded
    /\ stdout' = IF decoded.ok /\ result.ok
                  THEN Append(<<>>, Line(ResultLabel, StrOf(result.val)))
                  ELSE <<>>
    /\ stderr' = IF ~decoded.ok
                  THEN Append(<<>>, Line(ErrorLabel, ValuesErrorText))
                  ELSE <<>>
    /\ exit_code' = IF decoded.ok /\ ~result.ok THEN <<1>> ELSE <<0>>
    /\ UNCHANGED <<piped, global_rng, history, original>>

\* The body every command shares: try: decode, call, echo the result;
\* except JSONDecodeError: echo the VALUES message to the error stream;
\* except Exception: echo str(e) to the error stream.  The callback then
\* returns and click ends the process with status 0.
Command(cmd, args, fn, decoded, p, result) ==
    /\ op' = cmd
    /\ argv' = args
    /\ given' = {}
    /\ called' = IF decoded.ok THEN <<fn>> ELSE <<>>
    /\ params' = IF decoded.ok THEN p ELSE NoParams
    /\ ret' = IF decoded.ok THEN result ELSE decoded
    /\ stdout' = IF decoded.ok /\ result.ok
                  THEN Append(<<>>, Line(ResultLabel, StrOf(result.val)))
                  ELSE <<>>
    /\ stderr' = IF ~decoded.ok
                  THEN Append(<<>>, Line(ErrorLabel, ValuesErrorText))
                  ELSE IF ~result.ok THEN Append(<<>>, Line(ErrorLabel, result.msg))
                  ELSE <<>>
    /\ exit_code' = <<0>>
    /\ UNCHANGED <<piped, global_rng, history, original>>

remove_missing ==
    /\ op = "none"
    /\ \E values \in JsonArgs :
        LET values_list == JsonLoads(values)
        IN Command("remove-missing", [values |-> values, options |-> <<>>],
                   "remove_missing_values", values_list,
                   [NoParams EXCEPT !.values = values_list.val],
                   remove_missing_values(values_list.val))

\* int(text) of a click INT option
ParseInt(chars) ==
    PyInt((IF Head(chars) = "-" THEN -1 ELSE 1)
          * DigitsValue(IF Head(chars) = "-" THEN Tail(chars) ELSE chars, 0))

fill_missing ==
    /\ op = "none"
    /\ \E values \in JsonArgs, opt \in IntOptions :
        LET values_list == JsonLoads(values)
            fill_value == IF opt = <<>> THEN PyInt(0) ELSE ParseInt(opt)
        IN Command("fill-missing",
                   [values |-> values,
                    options |-> IF opt = <<>> THEN <<>> ELSE <<"--fill-value", opt>>],
                   "fill_missing_values", values_list,
                   [NoParams EXCEPT !.values = values_list.val, !.fill_value = fill_value],
                   fill_missing_values(values_list.val, fill_value))

remove_duplicates ==
    /\ op = "none"
    /\ \E values \in JsonArgs :
        LET values_list == JsonLoads(values)
        IN Command("remove-duplicates", [values |-> values, options |-> <<>>],
                   "remove_duplicated_values", values_list,
                   [NoParams EXCEPT !.values = values_list.val],
                   remove_duplicated_values(values_list.val))

normalize ==
    /\ op = "none"
    /\ \E values \in JsonArgs, lo \in FloatOptions, hi \in FloatOptions :
        LET values_list == JsonLoads(values)
            new_min == IF lo = <<>> THEN PyFloat(0, 0) ELSE ParseFloat(lo).val
            new_max == IF hi = <<>> THEN PyFloat(1, 0) ELSE ParseFloat(hi).val
        IN Command("normalize",
                   [values |-> values,
                    options |-> (IF lo = <<>> THEN <<>> ELSE <<"--new-min", lo>>)
                                \o (IF hi = <<>> THEN <<>> ELSE <<"--new-max", hi>>)],
                   "normalize_min_max", values_list,
                   [NoParams EXCEPT !.values = values_list.val,
                                    !.new_min = new_min, !.new_max = new_max],
                   normalize_min_max(values_list.val, new_min, new_max))

standardize ==
    /\ op = "none"
    /\ \E values \in JsonArgs :
        LET values_list == JsonLoads(values)
        IN Command("standardize", [values |-> values, options |-> <<>>],
                   "standardize_zscore", values_list,
                   [NoParams EXCEPT !.values = values_list.val],
                   standardize_zscore(values_list.val))

clip ==
    /\ op = "none"
    /\ \E values \in JsonArgs, lo \in FloatOptions, hi \in FloatOptions :
        LET values_list == JsonLoads(values)
            min_value == IF lo = <<>> THEN PyFloat(0, 0) ELSE ParseFloat(lo).val
            max_value == IF hi = <<>> THEN PyFloat(1, 0) ELSE ParseFloat(hi).val
        IN Command("clip",
                   [values |-> values,
                    options |-> (IF lo = <<>> THEN <<>> ELSE <<"--min-value", lo>>)
                                \o (IF hi = <<>> THEN <<>> ELSE <<"--max-value", hi>>)],
                   "clip_values", values_list,
                   [NoParams EXCEPT !.values = values_list.val,
                                    !.min_val = min_value, !.max_val = max_value],
                   clip_values(values_list.val, min_value, max_value))

to_integer ==
    /\ op = "none"
    /\ \E values \in JsonArgs :
        LET values_list == JsonLoads(values)
        IN Command("to-integer", [values |-> values, options |-> <<>>],
                   "convert_to_integers", values_list,
                   [NoParams EXCEPT !.values = values_list.val],
                   convert_to_integers(values_list.val))

\* The command log-transform (the function log_transform of cli.py).
cli_log_transform ==
    /\ op = "none"
    /\ \E values \in JsonArgs :
        LET values_list == JsonLoads(values)
        IN Command("log-transform", [values |-> values, options |-> <<>>],
                   "log_transform", values_list,
                   [NoParams EXCEPT !.values = values_list.val],
                   log_transform(values_list.val))

\* The text commands decode nothing: INPUT_TEXT is passed on as it is.
tokenize ==
    /\ op = "none"
    /\ \E input_text \in Texts :
        Command("tokenize", [values |-> JStr(input_text.s), options |-> <<>>],
                "tokenize_text", Return(input_text),
                [NoParams EXCEPT !.text = input_text],
                tokenize_text(input_text))

remove_punctuation ==
    /\ op = "none"
    /\ \E input_text \in Texts :
        Command("remove-punctuation", [values |-> JStr(input_text.s), options |-> <<>>],
                "keep_alphanumeric_and_spaces", Return(input_text),
                [NoParams EXCEPT !.text = input_text],
                keep_alphanumeric_and_spaces(input_text))

\* The command remove-stopwords (the function remove_stopwords of cli.py):
\* the option is decoded only if it is a non-empty text, and the message of
\* a JSONDecodeError names STOPWORDS.
cli_remove_stopwords ==
    /\ op = "none"
    /\ \E input_text \in CliWordTexts, stopwords \in StopwordOptions :
        LET stopwords_list == IF stopwords \in {NoDoc, EmptyDoc}
                              THEN Return(PyList(<<>>))
                              ELSE JsonLoads(stopwords)
            result == remove_stopwords(input_text, stopwords_list.val)
        IN /\ op' = "remove-stopwords"
           /\ argv' = [values |-> JStr(input_text.s),
                       options |-> IF stopwords = NoDoc THEN <<>>
                                   ELSE <<"--stopwords", stopwords>>]
           /\ given' = {}
           /\ called' = IF stopwords_list.ok THEN <<"remove_stopwords">> ELSE <<>>
           /\ params' = IF stopwords_list.ok
                         THEN [NoParams EXCEPT !.text = input_text,
                                               !.stopwords = stopwords_list.val]
                         ELSE NoParams
           /\ ret' = IF stopwords_list.ok THEN result ELSE stopwords_list
           /\ stdout' = IF stopwords_list.ok /\ result.ok
                         THEN Append(<<>>, Line(ResultLabel, StrOf(result.val)))
                         ELSE <<>>
           /\ stderr' = IF ~stopwords_list.ok
                         THEN Append(<<>>, Line(ErrorLabel, StopwordsErrorText))
                         ELSE IF ~result.ok THEN Append(<<>>, Line(ErrorLabel, result.msg))
                         ELSE <<>>
           /\ exit_code' = <<0>>
           /\ UNCHANGED <<piped, global_rng, history, original>>

\* The command makes one call in a process of its own, which ends after it.
shuffle ==
    /\ op = "none"
    /\ \E values \in JsonArgs, opt \in IntOptions :
        LET values_list == JsonLoads(values)
            seed == IF opt = <<>> THEN PyNone ELSE ParseInt(opt)
        IN \E entropy \in Entropy(values_list.val, seed) :
            Command("shuffle",
                    [values |-> values,
                     options |-> IF opt = <<>> THEN <<>> ELSE <<"--seed", opt>>],
                    "shuffle_list", values_list,
                    [NoParams EXCEPT !.values = values_list.val, !.seed = seed],
                    shuffle_list(values_list.val, seed, entropy, global_rng).ret)

flatten ==
    /\ op = "none"
    /\ \E values \in NestedJsonArgs :
        LET values_list == JsonLoads(values)
        IN Command("flatten", [values |-> values, options |-> <<>>],
                   "flatten_list", values_list,
                   [NoParams EXCEPT !.values = values_list.val],
                   flatten_list(values_list.val))

unique ==
    /\ op = "none"
    /\ \E values \in JsonArgs :
        LET values_list == JsonLoads(values)
        IN Command("unique", [values |-> values, options |-> <<>>],
                   "remove_duplicated_values", values_list,
                   [NoParams EXCEPT !.values = values_list.val],
                   remove_duplicated_values(values_list.val))

Next ==
    \/ Start
    \/ Call_remove_missing_values
    \/ Call_fill_missing_values
    \/ Call_remove_missing_values_of_filled
    \/ Call_remove_duplicated_values
    \/ Call_normalize_min_max
    \/ Call_standardize_zscore
    \/ Call_clip_values
    \/ Call_convert_to_integers
    \/ Call_log_transform
    \/ Call_tokenize_text
    \/ Call_keep_alphanumeric_and_spaces
    \/ Call_keep_alphanumeric_and_spaces_again
    \/ Call_remove_stopwords
    \/ Call_flatten_list
    \/ Call_shuffle_list
    \/ Call_shuffle_list_again
    \/ remove_missing
    \/ fill_missing
    \/ remove_duplicates
    \/ normalize
    \/ standardize
    \/ clip
    \/ to_integer
    \/ cli_log_transform
    \/ tokenize
    \/ remove_punctuation
    \/ cli_remove_stopwords
    \/ flatten
    \/ shuffle
    \/ unique

Spec == Init /\ [][Next]_vars

\* ------------------------------------------------------------------ claims
Commands ==
    {"remove-missing", "fill-missing", "remove-duplicates",
     "normalize", "standardize", "clip", "to-integer", "log-transform",
     "tokenize", "remove-punctuation", "remove-stopwords",
     "shuffle", "flatten", "unique"}

\* The one library function each command is to call.
FunctionOf(cmd) ==
    CASE cmd = "remove-missing" -> "remove_missing_values"
      [] cmd = "fill-missing" -> "fill_missing_values"
      [] cmd \in {"remove-duplicates", "unique"} -> "remove_duplicated_values"
      [] cmd = "normalize" -> "normalize_min_max"
      [] cmd = "standardize" -> "standardize_zscore"
      [] cmd = "clip" -> "clip_values"
      [] cmd = "to-integer" -> "convert_to_integers"
      [] cmd = "log-transform" -> "log_transform"
      [] cmd = "tokenize" -> "tokenize_text"
      [] cmd = "remove-punctuation" -> "keep_alphanumeric_and_spaces"
      [] cmd = "remove-stopwords" -> "remove_stopwords"
      [] cmd = "shuffle" -> "shuffle_list"
      [] cmd = "flatten" -> "flatten_list"

HasErrorLine == \E i \in 1..Len(stderr) : stderr[i].label = ErrorLabel
ResultLines == {i \in 1..Len(stdout) : stdout[i].label = ResultLabel}

\* C1: when the VALUES argument is not valid JSON or the transform function
\* raises, the command writes an "Error" message to the error stream and
\* the process does not exit with status zero.
C1_FailureExitsNonZero ==
    (op \in Commands /\ ~ret.ok) => (HasErrorLine /\ exit_code # <<0>>)

\* C2: every command ends in exactly one of two outcomes: the input decoded,
\* its one library function was called once and one "Result: " line with the
\* rendering of the returned value is on standard output with nothing on the
\* error stream; or an "Error" line is on the error stream and there is no
\* "Result: " line.
C2_Success ==
    /\ argv.values.j # "malformed"
    /\ called = <<FunctionOf(op)>>
    /\ ret.ok
    /\ stdout = <<Line(ResultLabel, StrOf(ret.val))>>
    /\ stderr = <<>>
C2_Failure ==
    /\ HasErrorLine
    /\ ResultLines = {}
C3_EmptyNormalizesToEmpty ==
    (called # <<>> /\ called[Len(called)] = "normalize_min_max"
        /\ params.values = PyList(<<>>))
    => (ret.ok /\ ret.val = PyList(<<>>))

\* The library function fn ran last, on a list.
Ran(fn) ==
    /\ called # <<>>
    /\ called[Len(called)] = fn
    /\ params.values.t = "list"
Input == params.values.items
Output == ret.val.items

\* Numbers in the mathematical sense: int or float, no nan.
AllNumbers(items) ==
    \A i \in 1..Len(items) : items[i].t \in {"int", "float"} /\ ~IsNaN(items[i])
AllNumbersOrNaN(items) ==
    \A i \in 1..Len(items) : items[i].t \in {"int", "float"}
AllEqual(items) ==
    \A i, j \in 1..Len(items) : PyEq(items[i], items[j])
\* Some least and some greatest element of a list of numbers.
Least(items) ==
    items[CHOOSE i \in 1..Len(items) : \A j \in 1..Len(items) : ~FLess(items[j], items[i])]
Greatest(items) ==
    items[CHOOSE i \in 1..Len(items) : \A j \in 1..Len(items) : ~FLess(items[i], items[j])]

\* C4: on a non-empty numeric sequence whose minimum equals its maximum
\* normalize_min_max returns as many elements, every one equal to new_min.
C4_DegenerateMapsToNewMin ==
    (Ran("normalize_min_max") /\ Input # <<>> /\ AllNumbers(Input) /\ AllEqual(Input))
    => /\ ret.ok
       /\ Len(Output) = Len(Input)
       /\ \A i \in 1..Len(Output) : Output[i] = params.new_min

\* C4 happens: several equal values, new_min distinct from new_max.
C4_Witness ==
    /\ Ran("normalize_min_max") /\ Len(Input) >= 2
    /\ AllNumbers(Input) /\ AllEqual(Input)
    /\ params.new_min # params.new_max
    /\ ret.ok /\ Len(Output) = Len(Input)

\* The rescaling formula of C5 on one element, every operation rounded.
C5_Formula(x, lo, hi) ==
    FAdd(FMul(FDiv(FSub(NumAsFloat(x), NumAsFloat(lo)),
                   FSub(NumAsFloat(hi), NumAsFloat(lo))),
              FSub(params.new_max, params.new_min)),
         params.new_min)
C5_Case == Ran("normalize_min_max") /\ AllNumbers(Input) /\ ~AllEqual(Input)
C5_ByFormula ==
    /\ ret.ok
    /\ Len(Output) = Len(Input)
    /\ \A i \in 1..Len(Input) :
          /\ Output[i] = C5_Formula(Input[i], Least(Input), Greatest(Input))
          /\ PyEq(Input[i], Least(Input)) => Output[i] = params.new_min
C5_Example ==
    (Input = <<PyInt(1), PyInt(2), PyInt(3), PyInt(4), PyInt(5)>>
        /\ params.new_min = PyFloat(0, 0) /\ params.new_max = PyFloat(1, 0))
    => Output = <<PyFloat(0, 0), PyFloat(1, -2), PyFloat(1, -1), PyFloat(3, -2), PyFloat(1, 0)>>

C6_IdenticalMapsToZero ==
    (Ran("standardize_zscore") /\ AllNumbers(Input) /\ AllEqual(Input))
    => /\ ret.ok
       /\ Len(Output) = Len(Input)
       /\ \A i \in 1..Len(Output) : Output[i] = PyFloat(0, 0)

\* The missing markers: None, the empty string, a float nan.
IsMissingMarker(x) ==
    \/ x.t = "none"
    \/ (x.t = "str" /\ Len(x.s) = 0)
    \/ (x.t = "float" /\ x.s = NaNChars)
Falsy == {PyInt(0), PyBool(FALSE), PyFloat(0, 0)}
Count(items, v) == Cardinality({i \in 1..Len(items) : items[i] = v})
NotMissing(x) == ~IsMissingMarker(x)

\* C7: remove_missing_values returns the elements that are no missing
\* marker, in their order; 0, False and 0.0 stay; the result is no longer.
C7_KeepsAllButMissing ==
    Ran("remove_missing_values")
    => /\ ret.ok
       /\ Output = SelectSeq(Input, NotMissing)
       /\ \A v \in Falsy : Count(Output, v) = Count(Input, v)
       /\ Len(Output) <= Len(Input)

\* C7 happens: a list with a missing marker and a falsy value.
C7_Witness ==
    /\ Ran("remove_missing_values") /\ piped = <<>>
    /\ \E i \in 1..Len(Input) : IsMissingMarker(Input[i])
    /\ \E i \in 1..Len(Input) : Input[i] \in Falsy
    /\ ret.ok /\ Len(Output) < Len(Input) /\ Output # <<>>

\* The positions remove_missing_values drops from items.
Dropped(items) ==
    {i \in 1..Len(items) : \A k \in 1..Len(KeptIndices(items)) : KeptIndices(items)[k] # i}

C9_Case == Ran("remove_missing_values") /\ piped # <<>>
C9_s == piped[1].params.values.items
C9_X == piped[1].params.fill_value
\* The positions where filling put X.
C9_FilledPositions == {i \in 1..Len(C9_s) : IsMissingMarker(C9_s[i])}
\* The output is the input at the kept positions.
C9_OutputIsKept ==
    /\ ret.ok
    /\ Len(Output) = Len(KeptIndices(Input))
    /\ \A k \in 1..Len(Output) : Output[k] = Input[KeptIndices(Input)[k]]

\* C9 as stated: remove-missing(fill-missing(s, X)) holds no X that the
\* filling introduced.
C9_NoFilledSurvives ==
    C9_Case => (C9_OutputIsKept /\ C9_FilledPositions \subseteq Dropped(Input))

\* C9 amended: it holds no X that the filling introduced when X is itself a
\* missing marker.
C9_NoFilledMarkerSurvives ==
    (C9_Case /\ IsMissingMarker(C9_X))
    => (C9_OutputIsKept /\ C9_FilledPositions \subseteq Dropped(Input))

\* C9 happens: a nan fill value on a list with and without missing markers.
C9_Witness ==
    /\ C9_Case /\ IsNaN(C9_X) /\ ret.ok
    /\ C9_FilledPositions # {}
    /\ Output # <<>>

\* What tells two values apart for remove-duplicates: numbers by their
\* value whatever the type, nan objects by identity, strings by their text.
DistinctKey(x) ==
    IF IsNumber(x) /\ ~IsNaN(x)
    THEN [k |-> "num", m |-> Canon(x.m, x.e)[1], e |-> Canon(x.m, x.e)[2], s |-> <<>>, id |-> 0]
    ELSE IF IsNumber(x) THEN [k |-> "nan", m |-> 0, e |-> 0, s |-> <<>>, id |-> x.id]
    ELSE [k |-> x.t, m |-> 0, e |-> 0, s |-> x.s, id |-> 0]
\* The positions of the first occurrences.
FirstOccurrences(items) ==
    {i \in 1..Len(items) :
        \A j \in 1..(i - 1) : DistinctKey(items[j]) # DistinctKey(items[i])}
Keys(items) == {DistinctKey(items[i]) : i \in 1..Len(items)}
Holds(items, v) == \E i \in 1..Len(items) : items[i] = v

\* C10: remove_duplicated_values returns every distinct value once, the
\* first occurring element of each, in the order of the first occurrences;
\* 1 and 1.0 are one value, 1 and '1' are two; the distinct values are
\* those of the input.
C10_FirstOccurrencesInOrder ==
    Ran("remove_duplicated_values")
    => /\ ret.ok
       /\ Len(Output) = Cardinality(FirstOccurrences(Input))
       /\ \A i \in FirstOccurrences(Input) :
             Output[Cardinality({j \in FirstOccurrences(Input) : j <= i})] = Input[i]
       /\ \A i \in 1..Len(Input) :
             Cardinality({k \in 1..Len(Output) :
                             DistinctKey(Output[k]) = DistinctKey(Input[i])}) = 1
       /\ Keys(Output) = Keys(Input)
       /\ (Holds(Input, PyInt(1)) /\ Holds(Input, PyFloat(1, 0)))
             => Count(Output, PyInt(1)) + Count(Output, PyFloat(1, 0)) = 1
       /\ (Holds(Input, PyInt(1)) /\ Holds(Input, PyStr(<<"1">>)))
             => (Count(Output, PyInt(1)) + Count(Output, PyFloat(1, 0)) = 1
                 /\ Count(Output, PyStr(<<"1">>)) = 1)

\* C10 happens: 1.0 after 1 and '1' in one list.
C10_Witness ==
    /\ Ran("remove_duplicated_values") /\ ret.ok
    /\ \E i, j \in 1..Len(Input) :
          i < j /\ Input[i] = PyInt(1) /\ Input[j] = PyFloat(1, 0)
    /\ Holds(Input, PyStr(<<"1">>))
    /\ Len(Output) < Len(Input)

\* The value of a number, whatever its type, is below that of another.
NumLess(a, b) == FLess(a, b)
NumLeq(a, b) == ~IsNaN(a) /\ ~IsNaN(b) /\ ~FLess(b, a)

C11_Case == Ran("clip_values") /\ AllNumbersOrNaN(Input)

\* C11: clip_values returns a list of the same length; with min <= max an
\* element within the bounds stays, one below min becomes min, one above max
\* becomes max; with min > max nothing is raised and every element gets the
\* lower bound applied first and the upper bound last, so becomes max.
C11_Clamps ==
    C11_Case
    => /\ ret.ok
       /\ Len(Output) = Len(Input)
       /\ \A i \in 1..Len(Input) :
             /\ (NumLeq(params.min_val, Input[i]) /\ NumLeq(Input[i], params.max_val))
                   => PyEq(Output[i], Input[i])
             /\ (NumLeq(params.min_val, params.max_val) /\ NumLess(Input[i], params.min_val))
                   => PyEq(Output[i], params.min_val)
             /\ (NumLeq(params.min_val, params.max_val) /\ NumLess(params.max_val, Input[i]))
                   => PyEq(Output[i], params.max_val)
             /\ (NumLess(params.max_val, params.min_val) /\ ~IsNaN(Input[i]))
                   => PyEq(Output[i], params.max_val)
       /\ (/\ Input = <<PyInt(1), PyInt(5), PyInt(10), PyInt(15)>>
           /\ params.min_val = PyInt(2) /\ params.max_val = PyInt(8))
             => Output = <<PyInt(2), PyInt(5), PyInt(8), PyInt(8)>>

\* C11 happens: min > max, with numbers below max and above min.
C11_Witness ==
    /\ C11_Case /\ ret.ok
    /\ NumLess(params.max_val, params.min_val)
    /\ Len(Input) >= 2
    /\ \E i \in 1..Len(Input) : NumLess(Input[i], params.max_val)
    /\ \E i \in 1..Len(Input) : NumLess(params.min_val, Input[i])

\* A text of digits with an optional sign and at most one decimal point.
IsDecimalText(chars) ==
    LET body == IF chars # <<>> /\ Head(chars) \in {"-", "+"} THEN Tail(chars) ELSE chars
    IN /\ \E i \in 1..Len(body) : body[i] \in DigitChars
       /\ \A i \in 1..Len(body) : body[i] \in DigitChars \cup {"."}
       /\ Cardinality({i \in 1..Len(body) : body[i] = "."}) <= 1
\* The digits before the point, and whether those after it are all 0.
WholePart(chars) ==
    LET body == IF Head(chars) \in {"-", "+"} THEN Tail(chars) ELSE chars
        n == Len(body)
        dot == IF \E i \in 1..n : body[i] = "."
               THEN CHOOSE i \in 1..n : body[i] = "." ELSE n + 1
    IN [value |-> (IF Head(chars) = "-" THEN -1 ELSE 1)
                    * DigitsValue(SubSeq(body, 1, dot - 1), 0),
        whole |-> \A i \in (dot + 1)..n : body[i] = "0"]

\* The item parses as a floating-point number with no fractional part.
C12_IsWhole(x) ==
    CASE x.t \in {"int", "bool"} -> TRUE
      [] x.t = "float" -> ~IsNaN(x) /\ ~IsInf(x) /\ (x.m = 0 \/ x.e >= 0)
      [] x.t = "str" -> IsDecimalText(x.s) /\ WholePart(x.s).whole
      [] OTHER -> FALSE
\* Its integer value.
C12_IntegerOf(x) ==
    CASE x.t = "int" -> x
      [] x.t = "bool" -> PyInt(x.m)
      [] x.t = "float" -> PyInt(x.m * Pow2(x.e))
      [] x.t = "str" -> PyInt(WholePart(x.s).value)
C12_Expected(items) ==
    [i \in 1..Len(SelectSeq(items, C12_IsWhole)) |->
        C12_IntegerOf(SelectSeq(items, C12_IsWhole)[i])]

\* C12: convert_to_integers never raises because of an item: it returns, in
\* order, the integer value of the items that parse as a float without a
\* fractional part, and skips the others, so is no longer than the input.
C12_SkipsEveryBadItem ==
    Ran("convert_to_integers")
    => /\ ret.ok
       /\ Output = C12_Expected(Input)
       /\ Len(Output) <= Len(Input)

\* The same for the items float can hold.
C12_WithinFloatRange ==
    (Ran("convert_to_integers") /\ \A i \in 1..Len(Input) : Input[i] # HugeInt)
    => /\ ret.ok
       /\ Output = C12_Expected(Input)
       /\ Len(Output) <= Len(Input)

\* A number (a bool is the int 0 or 1) above zero.
C13_IsPositiveNumber(x) ==
    /\ x.t \in {"int", "float", "bool"}
    /\ NumLess(PyFloat(0, 0), x)
C13_Kept == SelectSeq(Input, C13_IsPositiveNumber)

\* C13: log_transform raises nothing and returns, in order, the natural
\* logarithm of every element that is a number above zero, and nothing for
\* the others: 0.0 for 1, a positive value above 1, a negative one below 1.
C13_LogOfPositiveNumbers ==
    Ran("log_transform")
    => /\ ret.ok
       /\ Len(Output) = Len(C13_Kept)
       /\ \A i \in 1..Len(C13_Kept) :
             /\ Output[i] = MathLog(C13_Kept[i]).val
             /\ PyEq(C13_Kept[i], PyInt(1)) => Output[i] = PyFloat(0, 0)
             /\ NumLess(PyInt(1), C13_Kept[i]) => NumLess(PyFloat(0, 0), Output[i])
             /\ NumLess(C13_Kept[i], PyInt(1)) => NumLess(Output[i], PyFloat(0, 0))
       /\ Input = <<PyInt(1), PyInt(10), PyInt(0), PyInt(-5)>>
             => /\ Len(Output) = 2
                /\ Output[1] = PyFloat(0, 0)
                /\ NumLeq(PyInt(2), Output[2]) /\ NumLeq(Output[2], PyFloat(5, -1))

\* C13 happens: numbers above zero around one that is not, and a text.
C13_Witness ==
    /\ Ran("log_transform") /\ ret.ok
    /\ Len(Input) = 3 /\ Len(Output) = 2
    /\ C13_IsPositiveNumber(Input[1]) /\ C13_IsPositiveNumber(Input[3])
    /\ Input[1] # Input[3]
    /\ Input[2].t \in {"str", "none", "int"}

\* The library function fn ran last, on a text.
RanOnText(fn) ==
    /\ called # <<>>
    /\ called[Len(called)] = fn
    /\ params.text.t = "str"
Text == params.text.s

\* ASCII letters and digits.
IsAsciiAlnum(c) == c \in {"a", "b", "A", "B"} \cup DigitChars
\* The positions where a maximal run of letters and digits of t starts, and
\* the position where the run that starts at i ends.
RunStarts(t) ==
    {i \in 1..Len(t) : IsAsciiAlnum(t[i]) /\ (i = 1 \/ ~IsAsciiAlnum(t[i - 1]))}
RunEnd(t, i) ==
    CHOOSE j \in i..Len(t) :
        /\ \A k \in i..j : IsAsciiAlnum(t[k])
        /\ (j = Len(t) \/ ~IsAsciiAlnum(t[j + 1]))
LoweredText == [i \in 1..Len(Text) |-> IF Text[i] = "A" THEN "a"
                                        ELSE IF Text[i] = "B" THEN "b" ELSE Text[i]]

\* C14: tokenize_text returns, from left to right, exactly the maximal runs
\* of ASCII letters and digits of the lower-cased text; every other
\* character, the underscore included, only separates.
C14_EveryRunIsAToken ==
    RanOnText("tokenize_text")
    => /\ ret.ok
       /\ Len(Output) = Cardinality(RunStarts(LoweredText))
       /\ \A i \in RunStarts(LoweredText) :
             Output[Cardinality({j \in RunStarts(LoweredText) : j <= i})]
                = PyStr(SubSeq(LoweredText, i, RunEnd(LoweredText, i)))

\* The same for the texts without an underscore.
C14_WithoutUnderscore ==
    (RanOnText("tokenize_text") /\ \A i \in 1..Len(Text) : Text[i] # "_")
    => /\ ret.ok
       /\ Len(Output) = Cardinality(RunStarts(LoweredText))
       /\ \A i \in RunStarts(LoweredText) :
             Output[Cardinality({j \in RunStarts(LoweredText) : j <= i})]
                = PyStr(SubSeq(LoweredText, i, RunEnd(LoweredText, i)))

\* The positions of the ASCII letters, the digits and the plain spaces.
C15_Kept == {i \in 1..Len(Text) : IsAsciiAlnum(Text[i]) \/ Text[i] = " "}
C15_Spaces(t) == {i \in 1..Len(t) : t[i] = " "}

\* C15: keep_alphanumeric_and_spaces returns the ASCII letters, the digits
\* and the plain spaces of the text, in their order and case, every space
\* of a run of spaces among them; applied to its own result it returns it
\* unchanged.
C15_FiltersCharacters ==
    RanOnText("keep_alphanumeric_and_spaces")
    => /\ ret.ok
       /\ ret.val.t = "str"
       /\ Len(ret.val.s) = Cardinality(C15_Kept)
       /\ \A i \in C15_Kept :
             ret.val.s[Cardinality({j \in C15_Kept : j <= i})] = Text[i]
       /\ Cardinality(C15_Spaces(ret.val.s)) = Cardinality(C15_Spaces(Text))
       /\ piped # <<>>
             => (params.text = piped[1].ret.val /\ ret.val = piped[1].ret.val)

\* C15 happens: a second application, after a first one that removed
\* characters from a text with a capital and two spaces in a row.
C15_Witness ==
    /\ RanOnText("keep_alphanumeric_and_spaces") /\ ret.ok
    /\ piped # <<>>
    /\ Len(piped[1].ret.val.s) < Len(piped[1].params.text.s)
    /\ \E i \in 1..Len(Text) : Text[i] = "B"
    /\ \E i \in 1..(Len(Text) - 1) : Text[i] = " " /\ Text[i + 1] = " "

C16_Case == RanOnText("remove_stopwords") /\ params.stopwords.t = "list"
IsWhitespace(c) == c \in {" ", "\t"}
\* Where the whitespace-separated words of the lower-cased text start, and
\* the word that starts at i.
C16_Starts ==
    {i \in 1..Len(LoweredText) :
        ~IsWhitespace(LoweredText[i]) /\ (i = 1 \/ IsWhitespace(LoweredText[i - 1]))}
C16_Word(i) ==
    SubSeq(LoweredText, i,
           CHOOSE j \in i..Len(LoweredText) :
               /\ \A k \in i..j : ~IsWhitespace(LoweredText[k])
               /\ (j = Len(LoweredText) \/ IsWhitespace(LoweredText[j + 1])))
\* The word equals a string entry of stopwords.
C16_IsStopword(w) ==
    \E k \in 1..Len(params.stopwords.items) :
        params.stopwords.items[k].t = "str" /\ params.stopwords.items[k].s = w
C16_KeptStarts == {i \in C16_Starts : ~C16_IsStopword(C16_Word(i))}
\* The words that start at S, in order, one space between two of them.
RECURSIVE C16_Joined(_)
C16_Joined(S) ==
    IF S = {} THEN <<>>
    ELSE LET i == CHOOSE x \in S : \A y \in S : x <= y
         IN IF S = {i} THEN C16_Word(i)
            ELSE C16_Word(i) \o <<" ">> \o C16_Joined(S \ {i})
\* t with every run of whitespace replaced by one space.
RECURSIVE Collapsed(_, _)
Collapsed(t, i) ==
    IF i > Len(t) THEN <<>>
    ELSE IF ~IsWhitespace(t[i]) THEN <<t[i]>> \o Collapsed(t, i + 1)
    ELSE IF i > 1 /\ IsWhitespace(t[i - 1]) THEN Collapsed(t, i + 1)
    ELSE <<" ">> \o Collapsed(t, i + 1)
\* t without the spaces at its two ends.
Stripped(t) ==
    IF \A i \in 1..Len(t) : t[i] = " " THEN <<>>
    ELSE SubSeq(t, CHOOSE i \in 1..Len(t) : t[i] # " " /\ \A j \in 1..(i - 1) : t[j] = " ",
                   CHOOSE i \in 1..Len(t) : t[i] # " " /\ \A j \in (i + 1)..Len(t) : t[j] = " ")
C16_WordsJoined ==
    /\ ret.ok
    /\ ret.val = PyStr(C16_Joined(C16_KeptStarts))

RECURSIVE ItemsBefore(_, _)
ItemsBefore(lists, n) ==
    IF n = 0 THEN 0 ELSE ItemsBefore(lists, n - 1) + Len(lists[n].items)
AllLists(items) == \A i \in 1..Len(items) : items[i].t = "list"

\* C17: flatten_list on a list of lists returns the items of the inner
\* lists, the lists in their order and the items of each in theirs, as many
\* as the inner lists hold together; an item that is a list itself is
\* returned as it is, and an empty inner list adds nothing.
C17_Concatenates ==
    (Ran("flatten_list") /\ AllLists(Input))
    => /\ ret.ok
       /\ Len(Output) = ItemsBefore(Input, Len(Input))
       /\ \A i \in 1..Len(Input) : \A j \in 1..Len(Input[i].items) :
             Output[ItemsBefore(Input, i - 1) + j] = Input[i].items[j]
       /\ Input = <<PyList(<<PyInt(1), PyInt(2)>>), PyList(<<PyInt(3), PyInt(4)>>),
                    PyList(<<PyInt(5)>>)>>
             => Output = <<PyInt(1), PyInt(2), PyInt(3), PyInt(4), PyInt(5)>>

\* C17 happens: an empty inner list before one that holds a list and a
\* scalar.
C17_Witness ==
    /\ Ran("flatten_list") /\ AllLists(Input) /\ ret.ok
    /\ Len(Input) = 2
    /\ Input[1].items = <<>>
    /\ Len(Input[2].items) = 2
    /\ Input[2].items[1].t = "list" /\ Input[2].items[2].t # "list"
    /\ Output = Input[2].items

\* C18: flatten_list on a list whose elements are scalars, no lists, raises
\* nothing and returns those scalars unchanged.
C18_ScalarsPassThrough ==
    (/\ Ran("flatten_list") /\ Input # <<>>
     /\ \A i \in 1..Len(Input) : Input[i].t \in {"int", "float", "bool", "none"})
    => /\ ret.ok
       /\ Output = Input

ShuffledAList == op = "shuffle_list" /\ params.values.t = "list"
ItemsOf(items) == {items[i] : i \in 1..Len(items)}

\* C19: for every list and every seed, given or omitted, shuffle_list
\* returns a new list that is a permutation of the list it was given (the
\* same length, every item as many times); after the call the list of the
\* caller is as it was, item for item; for an empty list and a list of one
\* item the result equals the list given.  The command shuffle prints a
\* permutation of the decoded list.
C19_ReturnsPermutationInNewList ==
    /\ ShuffledAList
       => /\ ret.ok /\ ret.val.t = "list"
          /\ Len(Output) = Len(Input)
          /\ \A v \in ItemsOf(Input) \cup ItemsOf(Output) :
                Count(Output, v) = Count(Input, v)
          /\ original.obj = params.values
          /\ ~original.returned
          /\ Len(Input) <= 1 => Output = Input
    /\ (op = "shuffle" /\ called # <<>> /\ params.values.t = "list")
       => /\ ret.ok /\ ret.val.t = "list"
          /\ Len(Output) = Len(Input)
          /\ \A v \in ItemsOf(Input) \cup ItemsOf(Output) :
                Count(Output, v) = Count(Input, v)
          /\ stdout = <<Line(ResultLabel, StrOf(ret.val))>>

\* C19 happens: a list of three different items came back in another
\* order from a call without a seed.
C19_Witness ==
    /\ ShuffledAList /\ ret.ok
    /\ params.seed = PyNone
    /\ Cardinality(ItemsOf(Input)) = 3
    /\ Output # Input
    /\ Output[1] = Input[3]
    /\ original.obj = params.values

SameCall(earlier) == earlier.seed = params.seed /\ earlier.values = params.values
Seeded == op = "shuffle_list" /\ params.seed.t # "none"
C20_SameResultAsBefore ==
    Seeded => \A i \in 1..Len(history) : SameCall(history[i]) => history[i].ret = ret
C20_SameResultWhateverTheSharedState ==
    Seeded => \A shared \in GlobalStates :
                 shuffle_list(params.values, params.seed, <<>>, shared).ret = ret
C20_SharedStateNotWritten == op' = "shuffle_list" => global_rng' = global_rng

\* C20: a seeded call of shuffle_list is a function of the list and the
\* seed only: it returns what every earlier call of the process with the
\* same seed and an equal list returned, whatever calls with other seeds,
\* other lists or no seed were made between them, and whatever the state
\* of the shared generator of the process; no call of shuffle_list writes
\* the state of the shared generator.
C20_SeededIsAFunctionOfInputAndSeed ==
    /\ [](C20_SameResultAsBefore /\ C20_SameResultWhateverTheSharedState)
    /\ [][C20_SharedStateNotWritten]_vars

\* C20 happens: the third call of a process repeats the seed and the list
\* of the first, a list of three different items that the seed puts in
\* another order, after a call without a seed.
C20_Witness ==
    /\ Seeded /\ ret.ok
    /\ Len(called) = 3
    /\ Len(history) = 1
    /\ SameCall(history[1])
    /\ params.values.t = "list"
    /\ Cardinality(ItemsOf(Input)) = 3
    /\ Output # Input
    /\ history[1].ret = ret

\* The option name is on the command line (options holds names and texts
\* in turn).
HasOption(name) ==
    \E i \in 1..Len(argv.options) : i % 2 = 1 /\ argv.options[i] = name
C21_ClipRequiresBoth ==
    (op = "clip" /\ ~(HasOption("--min-value") /\ HasOption("--max-value")))
    => ResultLines = {}
C21_OthersTakeDefaults ==
    /\ (op = "normalize" /\ called # <<>> /\ ~HasOption("--new-min"))
       => params.new_min = PyFloat(0, 0)
    /\ (op = "normalize" /\ called # <<>> /\ ~HasOption("--new-max"))
       => params.new_max = PyFloat(1, 0)
    /\ (op = "fill-missing" /\ called # <<>> /\ ~HasOption("--fill-value"))
       => params.fill_value = PyInt(0)
    /\ (op = "shuffle" /\ called # <<>> /\ ~HasOption("--seed"))
       => params.seed = PyNone
    /\ (op = "remove-stopwords" /\ called # <<>> /\ ~HasOption("--stopwords"))
       => params.stopwords = PyList(<<>>)

\* C21: the command clip requires both --min-value and --max-value: a
\* command line that omits either is rejected, with no "Result: " line; the
\* other options take their defaults when
\* omitted (new-min 0.0, new-max 1.0, fill-value 0, no seed, no stopwords).
C21_ClipBoundsRequired ==
    /\ C21_ClipRequiresBoth
    /\ C21_OthersTakeDefaults

\* The commands whose VALUES argument is to be a JSON array.
ListCommands == Commands \ {"tokenize", "remove-punctuation", "remove-stopwords"}
\* VALUES is a JSON document, but no array.
BadContainer == argv.values.j \notin {"array", "malformed"}
C22_BadContainerRejected ==
    (op \in ListCommands /\ BadContainer) => (HasErrorLine /\ ResultLines = {})
\* The elements of the array that to-integer and log-transform take.
C22_GoodElement(x) ==
    IF op = "to-integer" THEN C12_IsWhole(x) ELSE C13_IsPositiveNumber(x)
C22_BadElementSkipped ==
    (op \in {"to-integer", "log-transform"} /\ argv.values.j = "array")
    => /\ ~HasErrorLine
       /\ ret.ok
       /\ stdout = <<Line(ResultLabel, StrOf(ret.val))>>
       /\ Len(Output) = Cardinality({i \in 1..Len(Input) : C22_GoodElement(Input[i])})

\* C22: for every command that takes a list, a VALUES argument that is
\* valid JSON but no array (a string, a number, a boolean or null) gives an
\* "Error" message and no "Result: " line, whereas an array with elements
\* that to-integer or log-transform cannot take gives a "Result: " line
\* without those elements and no "Error" message.
C22_ContainerRejectedElementSkipped ==
    /\ C22_BadContainerRejected
    /\ C22_BadElementSkipped
====
